---- MODULE Spec2Model ----
(***************************************************************************)
(* Client-side request interception of playwright-core                    *)
(* (packages/playwright-core/src/client/network.ts): one Route bound to   *)
(* one Request, offered by the dispatcher to a chain of RouteHandlers.     *)
(* Every asynchronous function is cut at its awaits: the code between two  *)
(* awaits is one atomic action, as under the single-threaded cooperative   *)
(* scheduling of the JavaScript event loop.                                *)
(***************************************************************************)
EXTENDS Integers, Sequences, FiniteSets, TLC

\* ------------------------------------------------------------------ bounds
\* Number of RouteHandlers the dispatcher may offer the Route to.
NumHandlers == 2
\* Number of resolving calls user logic makes on the Route.
MaxCalls == 3

Handlers == 1..NumHandlers

\* ------------------------------------------------------------------ values
\* The JavaScript value undefined (an option that is not given).
Undef == "undefined"

\* FallbackOverrides given by user logic (network.ts:79-84). postData is a
\* string ("s1"), a Buffer ("B1") or another Serializable value ("j1").
\* OverrideSet holds the options user logic passes to continue and fallback here:
\* none, a url with headers and a text body, a url with a method and bytes.
StringPostData == {"s1"}
BufferPostData == {"B1"}
JsonPostData == {"j1"}

NoOverrides == [url |-> Undef, method |-> Undef, headers |-> Undef, postData |-> Undef]

OverrideSet ==
  { NoOverrides,
    [url |-> "u1", method |-> Undef, headers |-> "h1", postData |-> "s1"],
    [url |-> "u2", method |-> "POST", headers |-> Undef, postData |-> "B1"] }

\* Options of fulfill as far as the control flow of _handleRoute depends on
\* them: a body alone, or body together with json (rejected by the assert).
FulfillSet == {"body", "bodyAndJson"}

\* JavaScript truthiness of an option value: undefined and '' are falsy.
Truthy(v) == v # Undef /\ v # ""

\* isString (utils/isomorphic/rtti) on a postData option.
isString(v) == v \in StringPostData \cup {""}

\* Buffer.from(text, 'utf-8')
BufferFromUtf8(s) == "utf8(" \o s \o ")"

\* JSON.stringify(value)
JSONstringify(v) == "json(" \o v \o ")"

\* headersObjectToArray(headers) (utils/isomorphic/headers)
headersObjectToArray(h) == "array(" \o h \o ")"

\* ------------------------------------------------------------------- state
VARIABLES
  owner,              \* what Request._targetClosedScope finds: "page" (a service worker's
                      \* scope behaves as a page's), or "none" when no owner is known yet
  scopeClosed,        \* the owner's closed/crashed LongStandingScope has been closed
  handlingPromise,    \* Route._handlingPromise: 0 is null, else the id of a promise
  promises,           \* the ManualPromises made by _startHandling: "pending", "true", "false"
  didThrow,           \* Route._didThrow
  fallbackOverrides,  \* Request._fallbackOverrides
  sent,               \* commands issued on the Route's channel, in order
  calls,              \* resolving calls made by user logic, in order of their start
  invs,               \* invocations of RouteHandler.handle, in order of their start
  handledCount,       \* RouteHandler.handledCount, per handler
  ignoreException,    \* RouteHandler._ignoreException, per handler
  activeInvocations,  \* RouteHandler._activeInvocations, per handler
  disp,               \* the dispatcher's position in the handler chain
  times,              \* RouteHandler._times, per handler
  routeDidThrow,      \* Route._didThrow of the Route of each invocation, where one
                      \* handler is invoked on several Routes
  registered,         \* the handlers the dispatcher still has in its list
  stops,              \* calls of RouteHandler.stop('wait'), in order of their start
  connected,          \* WebSocketRoute._connected
  onPageMessage,      \* WebSocketRoute._onPageMessage: 0 is undefined, else a callback
  onPageClose,        \* WebSocketRoute._onPageClose
  onServerMessage,    \* WebSocketRoute._onServerMessage
  onServerClose,      \* WebSocketRoute._onServerClose
  wsSent,             \* commands issued on the WebSocketRoute's channel, in order
  wsEvents,           \* events received on the WebSocketRoute's channel, in order,
                      \* each with what its listener did
  wsCalls,            \* calls of connectToServer, in order, each with its result
  wsHandle,           \* where WebSocketRouteHandler.handle is
  headersArray,       \* RawHeaders._headersArray
  headersMap,         \* RawHeaders._headersMap
  lookups,            \* lookups made on the RawHeaders, each with its result
  requests,           \* the Requests created, in order, each with its redirect links
  fulfills,           \* calls of Route._innerFulfill, each with what it read and sent
  prepared,           \* calls of prepareInterceptionPatterns, each with its result
  initializer,        \* Request._initializer: the values captured for the request
  applies,            \* calls of Request._applyFallbackOverrides, each with the overlay
                      \* before and after it
  actualHeadersPromise, \* Request._actualHeadersPromise: "none" is undefined
  rawSent,            \* rawRequestHeaders commands issued on the Request's channel
  headerCalls,        \* calls of Request._actualHeaders, in order of their start
  wsReplies,          \* answers of the channel to the commands of wsSent
  attachments,        \* TestResult.attachments of the one test result
  knownAttachmentCounts, \* TeleReporterEmitter._resultKnownAttachmentCounts
  messages            \* what the TeleReporterEmitter gave to its message sink, in order

multiVars == << times, routeDidThrow, registered, stops >>
wsVars == << connected, onPageMessage, onPageClose, onServerMessage, onServerClose,
             wsSent, wsEvents, wsCalls, wsHandle >>
rawVars == << headersArray, headersMap, lookups >>
actualVars == << actualHeadersPromise, rawSent, headerCalls >>
teleVars == << attachments, knownAttachmentCounts, messages >>
moreVars == << actualVars, wsReplies, teleVars >>
otherVars == << requests, fulfills, prepared, initializer, applies, moreVars >>
extVars == << multiVars, wsVars, rawVars, otherVars >>

vars == << owner, scopeClosed, handlingPromise, promises, didThrow, fallbackOverrides,
           sent, calls, invs, handledCount, ignoreException, activeInvocations, disp,
           extVars >>

routeVars == << handlingPromise, promises, didThrow, fallbackOverrides, sent, calls >>
handlerVars == << invs, handledCount, ignoreException, activeInvocations, disp >>

\* ------------------------------------------------------------------ Request
\* A merge that forgets the overlay: every field is taken from the overrides,
\* given or not.
_applyFallbackOverridesReplacing(fo, overrides) ==
  [ url     |-> overrides.url,
    method  |-> overrides.method,
    headers |-> overrides.headers,
    postDataBuffer |->
      IF isString(overrides.postData) THEN BufferFromUtf8(overrides.postData)
      ELSE IF overrides.postData \in BufferPostData THEN overrides.postData
      ELSE IF Truthy(overrides.postData) THEN BufferFromUtf8(JSONstringify(overrides.postData))
      ELSE Undef ]

\* A merge that clears the post body of the overlay when the overrides give
\* none.
_applyFallbackOverridesClearingBody(fo, overrides) ==
  [ url     |-> IF Truthy(overrides.url) THEN overrides.url ELSE fo.url,
    method  |-> IF Truthy(overrides.method) THEN overrides.method ELSE fo.method,
    headers |-> IF Truthy(overrides.headers) THEN overrides.headers ELSE fo.headers,
    postDataBuffer |->
      IF isString(overrides.postData) THEN BufferFromUtf8(overrides.postData)
      ELSE IF overrides.postData \in BufferPostData THEN overrides.postData
      ELSE IF Truthy(overrides.postData) THEN BufferFromUtf8(JSONstringify(overrides.postData))
      ELSE Undef ]

\* Request._applyFallbackOverrides
_applyFallbackOverrides(fo, overrides) ==
  [ url     |-> IF Truthy(overrides.url) THEN overrides.url ELSE fo.url,
    method  |-> IF Truthy(overrides.method) THEN overrides.method ELSE fo.method,
    headers |-> IF Truthy(overrides.headers) THEN overrides.headers ELSE fo.headers,
    postDataBuffer |->
      IF isString(overrides.postData) THEN BufferFromUtf8(overrides.postData)
      ELSE IF overrides.postData \in BufferPostData THEN overrides.postData
      ELSE IF Truthy(overrides.postData) THEN BufferFromUtf8(JSONstringify(overrides.postData))
      ELSE fo.postDataBuffer ]

\* Request._targetClosedScope: the scope of the service worker or of the page;
\* a fresh LongStandingScope, which nobody closes, when neither is known.
_targetClosedScope == IF owner \in {"worker", "page"} THEN scopeClosed ELSE FALSE

\* LongStandingScope.safeRace(promise) as Route._raceWithTargetClose uses it:
\* when the scope is closed it resolves, whatever the promise does; otherwise it
\* settles as the promise does.
safeRace(closed, answer) == IF closed THEN "close" ELSE answer

\* -------------------------------------------------------------------- Route
\* A check that lets every call through once the route was dispatched.
_checkNotHandledOnceDispatched == Len(promises) > 0

\* A check that never throws.
_checkNotHandledNever == TRUE

\* Route._checkNotHandled: TRUE when it does not throw.
_checkNotHandled == handlingPromise # 0

\* A report that resolves the promise with true whatever the outcome.
_reportHandledIgnoringDone(done) == [promises EXCEPT ![handlingPromise] = "true"]

\* Route._reportHandled on a non-null _handlingPromise: the promise resolves.
_reportHandled(done) == [promises EXCEPT ![handlingPromise] = done]

\* The parameters of channel.continue built by Route._innerContinue.
_innerContinue(options, isFallback, c) ==
  [ kind |-> "continue", call |-> c,
    url |-> options.url,
    method |-> options.method,
    headers |-> IF options.headers # Undef THEN headersObjectToArray(options.headers) ELSE Undef,
    postData |-> options.postDataBuffer,
    isFallback |-> isFallback ]

\* A command that carries no overrides (abort, fulfill).
Command(kind, c) ==
  [ kind |-> kind, call |-> c, url |-> Undef, method |-> Undef, headers |-> Undef,
    postData |-> Undef, isFallback |-> FALSE ]

\* A resolving call as user logic sees it.
Call(kind, opts, pc, result, cmd) ==
  [ kind |-> kind, opts |-> opts, epoch |-> Len(promises),
    pc |-> pc, result |-> result, cmd |-> cmd, settledBy |-> "none", resolved |-> 0 ]

\* Route._startHandling: a new ManualPromise, pending, becomes _handlingPromise.
_startHandling == Append(promises, "pending")

\* The parts of the state that a specification does not exercise stay as they
\* are here.
NoHandler ==
  /\ promises = << >> /\ invs = << >>
  /\ handledCount = [h \in Handlers |-> 0]
  /\ ignoreException = [h \in Handlers |-> FALSE]
  /\ activeInvocations = [h \in Handlers |-> {}]
NoRoute ==
  /\ owner = "none" /\ scopeClosed = FALSE /\ handlingPromise = 0 /\ didThrow = FALSE
  /\ fallbackOverrides = [url |-> Undef, method |-> Undef, headers |-> Undef,
                          postDataBuffer |-> Undef]
  /\ sent = << >> /\ calls = << >>
  /\ disp = [next |-> 1, state |-> "idle"]
NoMulti ==
  /\ times = [h \in Handlers |-> 0] /\ routeDidThrow = << >>
  /\ registered = {} /\ stops = << >>
NoWebSocketRoute ==
  /\ connected = FALSE
  /\ onPageMessage = 0 /\ onPageClose = 0 /\ onServerMessage = 0 /\ onServerClose = 0
  /\ wsSent = << >> /\ wsEvents = << >> /\ wsCalls = << >> /\ wsHandle = "idle"
NoRawHeaders ==
  /\ headersArray = << >> /\ headersMap = << >> /\ lookups = << >>
NoRequests == requests = << >>
NoFulfills == fulfills = << >>
NoPrepared == prepared = << >>
NoInitializer == [url |-> Undef, method |-> Undef, headers |-> Undef, postData |-> Undef]
NoApplies == initializer = NoInitializer /\ applies = << >>
NoActual == actualHeadersPromise = "none" /\ rawSent = << >> /\ headerCalls = << >>
NoWsReplies == wsReplies = {}
NoTele == attachments = << >> /\ knownAttachmentCounts = {} /\ messages = << >>
NoMore == NoActual /\ NoWsReplies /\ NoTele
NoOther == NoRequests /\ NoFulfills /\ NoPrepared /\ NoApplies /\ NoMore

Init ==
  /\ owner \in {"page", "none"}
  /\ scopeClosed = FALSE
  /\ handlingPromise = 0
  /\ promises = << >>
  /\ didThrow = FALSE
  /\ fallbackOverrides = [url |-> Undef, method |-> Undef, headers |-> Undef,
                          postDataBuffer |-> Undef]
  /\ sent = << >>
  /\ calls = << >>
  /\ invs = << >>
  /\ handledCount = [h \in Handlers |-> 0]
  /\ ignoreException = [h \in Handlers |-> FALSE]
  /\ activeInvocations = [h \in Handlers |-> {}]
  /\ disp = [next |-> 1, state |-> "idle"]
  /\ NoMulti /\ NoWebSocketRoute /\ NoRawHeaders /\ NoOther

\* ------------------------------------------------------- resolving calls
\* Route.fallback: synchronous, it has no await.
Route_fallback(options) ==
  /\ Len(calls) < MaxCalls
  /\ IF ~_checkNotHandled
     THEN /\ calls' = Append(calls, Call("fallback", options, "done", "AlreadyHandled", 0))
          /\ UNCHANGED << fallbackOverrides, promises, handlingPromise >>
     ELSE /\ fallbackOverrides' = _applyFallbackOverrides(fallbackOverrides, options)
          /\ promises' = _reportHandled("false")
          /\ handlingPromise' = 0
          /\ calls' = Append(calls, [Call("fallback", options, "done", "ok", 0)
                                       EXCEPT !.resolved = handlingPromise])
  /\ UNCHANGED << owner, scopeClosed, didThrow, sent, handlerVars, extVars >>

\* Route.fallback as user logic calls it from a handler callback or after one: the
\* Route has been dispatched.
fallback(options) == Len(invs) > 0 /\ Route_fallback(options)

\* Route.continue up to the await of the channel command: _handleRoute's check,
\* then _applyFallbackOverrides and _innerContinue(false).
Route_continue(options) ==
  /\ Len(calls) < MaxCalls
  /\ IF ~_checkNotHandled
     THEN /\ calls' = Append(calls, Call("continue", options, "done", "AlreadyHandled", 0))
          /\ UNCHANGED << fallbackOverrides, sent >>
     ELSE /\ fallbackOverrides' = _applyFallbackOverrides(fallbackOverrides, options)
          /\ sent' = Append(sent, _innerContinue(fallbackOverrides', FALSE, Len(calls) + 1))
          /\ calls' = Append(calls, Call("continue", options, "awaiting", "none", Len(sent) + 1))
  /\ UNCHANGED << owner, scopeClosed, handlingPromise, promises, didThrow, handlerVars, extVars >>

\* Route.continue as user logic calls it from a handler callback or after one: the
\* Route has been dispatched.
continue(options) == Len(invs) > 0 /\ Route_continue(options)

\* Route.abort up to the await of the channel command.
Route_abort ==
  /\ Len(calls) < MaxCalls
  /\ IF ~_checkNotHandled
     THEN /\ calls' = Append(calls, Call("abort", NoOverrides, "done", "AlreadyHandled", 0))
          /\ UNCHANGED sent
     ELSE /\ sent' = Append(sent, Command("abort", Len(calls) + 1))
          /\ calls' = Append(calls, Call("abort", NoOverrides, "awaiting", "none", Len(sent) + 1))
  /\ UNCHANGED << owner, scopeClosed, handlingPromise, promises, didThrow, fallbackOverrides, handlerVars, extVars >>

\* Route.abort as user logic calls it from a handler callback or after one: the
\* Route has been dispatched.
abort == Len(invs) > 0 /\ Route_abort

\* Route.fulfill up to the await of the channel command: _handleRoute's check and
\* _innerFulfill, whose assert throws when body and json are both given; the
\* catch of _handleRoute then sets _didThrow and nothing is sent.
Route_fulfill(f) ==
  /\ Len(calls) < MaxCalls
  /\ IF ~_checkNotHandled
     THEN /\ calls' = Append(calls, Call("fulfill", NoOverrides, "done", "AlreadyHandled", 0))
          /\ UNCHANGED << sent, didThrow >>
     ELSE IF f = "bodyAndJson"
     THEN /\ calls' = Append(calls, Call("fulfill", NoOverrides, "done", "AssertionError", 0))
          /\ didThrow' = TRUE
          /\ UNCHANGED sent
     ELSE /\ sent' = Append(sent, Command("fulfill", Len(calls) + 1))
          /\ calls' = Append(calls, Call("fulfill", NoOverrides, "awaiting", "none", Len(sent) + 1))
          /\ UNCHANGED didThrow
  /\ UNCHANGED << owner, scopeClosed, handlingPromise, promises, fallbackOverrides, handlerVars, extVars >>

\* Route.fulfill as user logic calls it from a handler callback or after one: the
\* Route has been dispatched.
fulfill(f) == Len(invs) > 0 /\ Route_fulfill(f)

\* A _handleRoute that reports nothing when the race was won by the close of
\* the target: the outcome promise stays pending.
HandleRouteReturnedUnlessClosed(c, how) ==
  IF how = "close"
  THEN /\ calls' = [calls EXCEPT ![c].pc = "done", ![c].result = "ok", ![c].settledBy = how]
       /\ UNCHANGED << promises, handlingPromise, didThrow >>
  ELSE IF handlingPromise = 0
  THEN /\ didThrow' = TRUE
       /\ calls' = [calls EXCEPT ![c].pc = "done", ![c].result = "TypeError", ![c].settledBy = how]
       /\ UNCHANGED << promises, handlingPromise >>
  ELSE /\ promises' = [promises EXCEPT ![handlingPromise] = "true"]
       /\ handlingPromise' = 0
       /\ calls' = [calls EXCEPT ![c].pc = "done", ![c].result = "ok", ![c].settledBy = how,
                                 ![c].resolved = handlingPromise]
       /\ UNCHANGED didThrow

\* _handleRoute after `await callback()` returned: _reportHandled(true). With
\* _handlingPromise null, `chain.resolve` is a TypeError, which the catch of
\* _handleRoute records in _didThrow and rethrows.
HandleRouteReturned(c, how) ==
  IF handlingPromise = 0
  THEN /\ didThrow' = TRUE
       /\ calls' = [calls EXCEPT ![c].pc = "done", ![c].result = "TypeError", ![c].settledBy = how]
       /\ UNCHANGED << promises, handlingPromise >>
  ELSE /\ promises' = _reportHandled("true")
       /\ handlingPromise' = 0
       /\ calls' = [calls EXCEPT ![c].pc = "done", ![c].result = "ok", ![c].settledBy = how,
                                 ![c].resolved = handlingPromise]
       /\ UNCHANGED didThrow

\* The channel answers the command of call c before the target closes.
ChannelResolves(c) ==
  /\ c \in 1..Len(calls) /\ calls[c].pc = "awaiting"
  /\ safeRace(_targetClosedScope, "resolve") = "resolve"
  /\ HandleRouteReturned(c, "resolve")
  /\ UNCHANGED << owner, scopeClosed, fallbackOverrides, sent, handlerVars, extVars >>

\* A _handleRoute whose catch rethrows without recording anything.
ChannelRejectsWithoutFlag(c) ==
  /\ c \in 1..Len(calls) /\ calls[c].pc = "awaiting"
  /\ safeRace(_targetClosedScope, "reject") = "reject"
  /\ calls' = [calls EXCEPT ![c].pc = "done", ![c].result = "Rejected", ![c].settledBy = "reject"]
  /\ UNCHANGED << owner, scopeClosed, handlingPromise, promises, didThrow, fallbackOverrides,
                  sent, handlerVars, extVars >>

\* The channel rejects the command of call c before the target closes: the catch
\* of _handleRoute sets _didThrow and rethrows; _reportHandled is not reached.
ChannelRejects(c) ==
  /\ c \in 1..Len(calls) /\ calls[c].pc = "awaiting"
  /\ safeRace(_targetClosedScope, "reject") = "reject"
  /\ didThrow' = TRUE
  /\ calls' = [calls EXCEPT ![c].pc = "done", ![c].result = "Rejected", ![c].settledBy = "reject"]
  /\ UNCHANGED << owner, scopeClosed, handlingPromise, promises, fallbackOverrides, sent, handlerVars, extVars >>

\* Route._raceWithTargetClose when the scope is closed while the command of call
\* c is unanswered: safeRace resolves, and _handleRoute goes on.
TargetCloseWins(c) ==
  /\ c \in 1..Len(calls) /\ calls[c].pc = "awaiting"
  /\ safeRace(_targetClosedScope, "pending") = "close"
  /\ HandleRouteReturned(c, "close")
  /\ UNCHANGED << owner, scopeClosed, fallbackOverrides, sent, handlerVars, extVars >>

\* The owning page or service worker closes or crashes.
TargetClose ==
  /\ owner # "none" /\ ~scopeClosed
  /\ scopeClosed' = TRUE
  /\ UNCHANGED << owner, routeVars, handlerVars, extVars >>

\* ------------------------------------------------------------ RouteHandler
\* What the dispatcher does with the outcome of handle: a true outcome ends the
\* dispatch, a false one offers the Route to the next handler, or lets the
\* request go to the network when none remains; an error propagates.
Dispatched(h, ret) ==
  IF ret = "true" THEN [next |-> h, state |-> "handled"]
  ELSE IF ret = "false"
  THEN [next |-> h + 1, state |-> IF h + 1 \in Handlers THEN "idle" ELSE "network"]
  ELSE [next |-> h, state |-> "failed"]

\* RouteHandler.handle up to the await of _handleInternal: _handleImpl enters
\* the invocation in _activeInvocations, _handleInternal counts it, starts the
\* handling of the route and calls the user callback.
handle(h) ==
  /\ disp.state = "idle" /\ disp.next = h
  /\ activeInvocations' = [activeInvocations EXCEPT ![h] = @ \cup {Len(invs) + 1}]
  /\ handledCount' = [handledCount EXCEPT ![h] = @ + 1]
  /\ promises' = _startHandling
  /\ handlingPromise' = Len(promises')
  /\ invs' = Append(invs, [handler |-> h, promise |-> Len(promises'), cb |-> "running",
                           pc |-> "awaiting", ret |-> "none"])
  /\ disp' = [disp EXCEPT !.state = "waiting"]
  /\ UNCHANGED << owner, scopeClosed, didThrow, fallbackOverrides, sent, calls, ignoreException, extVars >>

\* The user callback of invocation i returns, or its promise fulfils.
CallbackReturns(i) ==
  /\ i \in 1..Len(invs) /\ invs[i].cb = "running"
  /\ invs' = [invs EXCEPT ![i].cb = "returned"]
  /\ UNCHANGED << owner, scopeClosed, routeVars, handledCount, ignoreException, activeInvocations, disp, extVars >>

\* The user callback of invocation i throws, or its promise rejects.
CallbackThrows(i) ==
  /\ i \in 1..Len(invs) /\ invs[i].cb = "running"
  /\ invs' = [invs EXCEPT ![i].cb = "threw"]
  /\ UNCHANGED << owner, scopeClosed, routeVars, handledCount, ignoreException, activeInvocations, disp, extVars >>

\* The value _handleInternal returns once Promise.all has fulfilled: handled.
_handleInternal(i) == promises[invs[i].promise]

\* A catch block that swallows the error whether the handler was stopped or not.
HandleImplCatchSwallows(h) == "false"

\* A catch block that rethrows whether the handler was stopped or not.
HandleImplCatchRethrows(h) == "raised"

\* What _handleImpl does with an error of _handleInternal: returns false when
\* the handler was stopped with 'ignoreErrors', rethrows otherwise.
HandleImplCatch(h) == IF ignoreException[h] THEN "false" ELSE "raised"

\* _handleImpl after Promise.all fulfilled: both the outcome promise and the
\* callback have settled. The finally block leaves _activeInvocations.
HandleReturns(i) ==
  /\ i \in 1..Len(invs) /\ invs[i].pc = "awaiting"
  /\ invs[i].cb = "returned" /\ promises[invs[i].promise] # "pending"
  /\ invs' = [invs EXCEPT ![i].pc = "returned", ![i].ret = _handleInternal(i)]
  /\ activeInvocations' = [activeInvocations EXCEPT ![invs[i].handler] = @ \ {i}]
  /\ disp' = Dispatched(invs[i].handler, _handleInternal(i))
  /\ UNCHANGED << owner, scopeClosed, routeVars, handledCount, ignoreException, extVars >>

\* _handleImpl after Promise.all rejected, which it does as soon as the callback
\* throws: the catch block, then the finally block.
HandleCatches(i) ==
  /\ i \in 1..Len(invs) /\ invs[i].pc = "awaiting"
  /\ invs[i].cb = "threw"
  /\ LET ret == HandleImplCatch(invs[i].handler) IN
       /\ invs' = [invs EXCEPT ![i].pc = IF ret = "raised" THEN "raised" ELSE "returned",
                               ![i].ret = ret]
       /\ disp' = Dispatched(invs[i].handler, ret)
  /\ activeInvocations' = [activeInvocations EXCEPT ![invs[i].handler] = @ \ {i}]
  /\ UNCHANGED << owner, scopeClosed, routeVars, handledCount, ignoreException, extVars >>

\* A stop('wait') that awaits no invocation.
StopWaitsForNone(h) == {}

\* The invocations whose completion stop('wait') awaits: those in
\* _activeInvocations whose Route has not thrown.
StopWaitsFor(h) == { i \in activeInvocations[h] : ~routeDidThrow[i] }

\* RouteHandler.stop up to its await: 'ignoreErrors' sets _ignoreException and
\* returns; otherwise the invocations to await are collected, and stops records
\* the call together with what _activeInvocations and the Routes were then.
stop(h, behavior) ==
  /\ activeInvocations[h] # {}
  /\ IF behavior = "ignoreErrors"
     THEN /\ ignoreException' = [ignoreException EXCEPT ![h] = TRUE]
          /\ UNCHANGED stops
     ELSE /\ stops' = Append(stops, [handler |-> h, promises |-> StopWaitsFor(h),
                                     active |-> activeInvocations[h],
                                     threw |-> { i \in activeInvocations[h] : routeDidThrow[i] },
                                     pc |-> "awaiting"])
          /\ UNCHANGED ignoreException
  /\ UNCHANGED << owner, scopeClosed, routeVars, invs, handledCount, activeInvocations, disp,
                  times, routeDidThrow, registered, wsVars, rawVars, otherVars >>

\* ------------------------------------------------------------ specification
Next ==
  \/ \E h \in Handlers : handle(h)
  \/ \E o \in OverrideSet : fallback(o)
  \/ \E o \in OverrideSet : continue(o)
  \/ abort
  \/ \E f \in FulfillSet : fulfill(f)
  \/ \E c \in 1..MaxCalls : ChannelResolves(c)
  \/ \E c \in 1..MaxCalls : ChannelRejects(c)
  \/ \E c \in 1..MaxCalls : TargetCloseWins(c)
  \/ TargetClose
  \/ \E i \in 1..NumHandlers : CallbackReturns(i)
  \/ \E i \in 1..NumHandlers : CallbackThrows(i)
  \/ \E i \in 1..NumHandlers : HandleReturns(i)
  \/ \E i \in 1..NumHandlers : HandleCatches(i)
  \/ \E h \in Handlers : stop(h, "ignoreErrors")

Spec == Init /\ [][Next]_vars

\* ------------------------------------------------------------------ claims
CallIds == 1..Len(calls)
InvIds == 1..Len(invs)
Terminal == {"continue", "abort", "fulfill"}

\* The Route is Handled: it was dispatched and its outcome promise is gone.
Handled == Len(promises) > 0 /\ handlingPromise = 0

\* The step starts a resolving call of this kind.
Starts(kind) == Len(calls') = Len(calls) + 1 /\ calls'[Len(calls')].kind = kind

\* C1: among the resolving calls made on one dispatch of a Route, with valid
\* options and a channel that rejects no command, the first call succeeds and
\* every later call fails with 'Route is already handled!'.
C1_ExactlyFirstSucceeds ==
  (\A c \in CallIds : calls[c].result \notin {"AssertionError", "Rejected"}) =>
    \A c \in CallIds :
      calls[c].pc = "done" =>
        IF \A d \in 1..(c - 1) : calls[d].epoch # calls[c].epoch
        THEN calls[c].result = "ok"
        ELSE calls[c].result = "AlreadyHandled"

\* C2: at most one terminal command (continue, fulfill, abort) is ever sent on
\* the channel for one Route, under any interleaving of resolving calls.
C2_AtMostOneTerminalCommand ==
  Cardinality({k \in 1..Len(sent) : sent[k].kind \in Terminal}) <= 1

\* C3: after a resolving call whose command the channel rejected, the Route is
\* Handled (not resolvable) for the rest of that dispatch.
C3_RejectedCallLeavesRouteHandled ==
  \A c \in CallIds :
    (calls[c].result = "Rejected" /\ calls[c].epoch = Len(promises)) => Handled

\* C4: a continue, fulfill or abort call whose pending command is overtaken by
\* the close of the owning target returns without raising.
C4_CloseReturnsWithoutRaising ==
  \A c \in CallIds : calls[c].settledBy = "close" => calls[c].result = "ok"

\* C5 (as stated): when the owning target closes before a pending command
\* completes, no outcome promise is resolved as a consequence of the close.
C5_CloseLeavesOutcomeUnresolved ==
  [][\A c \in CallIds :
       (calls[c].pc = "awaiting" /\ calls'[c].settledBy = "close") => promises' = promises]_vars

\* C5 (amended): the close of the target itself resolves no outcome promise; a
\* call whose pending command is overtaken by the close goes on as after a
\* successful command: it resolves the outcome promise pending at that moment
\* with true, never with false, and leaves every other promise as it is; when
\* no outcome promise is pending it resolves none and raises.
C5_CloseResolvesOutcomeTrue ==
  [][/\ scopeClosed' # scopeClosed => promises' = promises /\ handlingPromise' = handlingPromise
     /\ \A c \in CallIds :
          (calls[c].pc = "awaiting" /\ calls'[c].settledBy = "close") =>
            IF handlingPromise # 0
            THEN /\ calls'[c].result = "ok"
                 /\ promises[handlingPromise] = "pending"
                 /\ promises'[handlingPromise] = "true"
                 /\ handlingPromise' = 0
                 /\ \A p \in 1..Len(promises) : p # handlingPromise => promises'[p] = promises[p]
            ELSE /\ calls'[c].result = "TypeError"
                 /\ promises' = promises]_vars

\* A call overtaken by the close of the target resolved the outcome with true.
C5_Witness ==
  \E c \in CallIds :
    /\ calls[c].settledBy = "close" /\ calls[c].result = "ok"
    /\ promises[calls[c].resolved] = "true"

\* The postDataBuffer that an override's postData stands for: text is UTF-8
\* encoded, bytes are taken as they are, any other value is serialized to JSON
\* and then encoded.
Encoded(v) ==
  IF v \in StringPostData THEN "utf8(" \o v \o ")"
  ELSE IF v \in BufferPostData THEN v
  ELSE "utf8(json(" \o v \o "))"

\* C6: fallback(overrides) on a dispatched, unresolved Route merges the overrides
\* into the overlay (a field that is given replaces the overlay's, a field that
\* is not given leaves it), sends no command, and resolves the outcome promise
\* with false.
C6_FallbackMergesAndReportsFalse ==
  [][(Starts("fallback") /\ handlingPromise # 0) =>
       LET o == calls'[Len(calls')].opts IN
         /\ calls'[Len(calls')].result = "ok"
         /\ sent' = sent
         /\ promises'[handlingPromise] = "false"
         /\ handlingPromise' = 0
         /\ fallbackOverrides'.url = IF o.url # Undef THEN o.url ELSE fallbackOverrides.url
         /\ fallbackOverrides'.method = IF o.method # Undef THEN o.method ELSE fallbackOverrides.method
         /\ fallbackOverrides'.headers = IF o.headers # Undef THEN o.headers ELSE fallbackOverrides.headers
         /\ fallbackOverrides'.postDataBuffer =
              IF o.postData # Undef THEN Encoded(o.postData) ELSE fallbackOverrides.postDataBuffer]_vars

\* A fallback that gave some fields and not others was applied over an overlay
\* that already held a method, and the outcome of its dispatch is false.
C6_Witness ==
  \E c, d \in CallIds :
    /\ d < c /\ calls[d].result = "ok" /\ calls[d].opts.method # Undef
    /\ calls[c].kind = "fallback" /\ calls[c].result = "ok"
    /\ calls[c].opts.method = Undef /\ calls[c].opts.headers # Undef
    /\ promises[calls[c].resolved] = "false"

\* The commands sent by call c.
CommandsOf(c) == {k \in 1..Len(sent) : sent[k].call = c}

\* C7: a continue, abort or fulfill call that succeeds has sent exactly one
\* command, of its own kind, and has resolved an outcome promise with true; an
\* outcome is true, and handle returns true, only when a terminal command was
\* issued by the call that resolved it.
C7_SuccessSendsOneCommandThenTrue ==
  /\ \A c \in CallIds :
       (calls[c].kind \in Terminal /\ calls[c].result = "ok") =>
         /\ Cardinality(CommandsOf(c)) = 1
         /\ \A k \in CommandsOf(c) : sent[k].kind = calls[c].kind
         /\ calls[c].resolved \in 1..Len(promises)
         /\ promises[calls[c].resolved] = "true"
  /\ \A p \in 1..Len(promises) :
       promises[p] = "true" =>
         \E c \in CallIds :
           /\ calls[c].resolved = p /\ calls[c].kind \in Terminal
           /\ CommandsOf(c) # {}
  /\ \A i \in InvIds :
       invs[i].ret = "true" => \E k \in 1..Len(sent) : sent[k].kind \in Terminal

\* Each kind of terminal call has succeeded once somewhere; here an abort did,
\* and the handler returned true to the dispatcher.
C7_Witness ==
  /\ \E c \in CallIds : calls[c].kind = "abort" /\ calls[c].result = "ok"
  /\ \E i \in InvIds : invs[i].ret = "true"

\* The last successful fallback call before call c that gave field f (0: none).
LastFallbackGiving(c, f) ==
  LET S == {d \in 1..(c - 1) : calls[d].kind = "fallback" /\ calls[d].result = "ok"
                                 /\ calls[d].opts[f] # Undef}
  IN IF S = {} THEN 0 ELSE CHOOSE d \in S : \A e \in S : e <= d

\* The value of field f that the continue command of call c is to carry: the
\* one given by call c, else the one given by the most recent earlier fallback.
Carried(c, f) ==
  IF calls[c].opts[f] # Undef THEN calls[c].opts[f]
  ELSE IF LastFallbackGiving(c, f) = 0 THEN Undef
  ELSE calls[LastFallbackGiving(c, f)].opts[f]

\* C8: the continue command sent by continue(overrides) carries, for each of
\* url, method, headers and post body, the value given by this call if given,
\* otherwise the value given by the most recent earlier fallback call that gave
\* that field.
C8_ContinueCarriesOverlay ==
  \A k \in 1..Len(sent) :
    sent[k].kind = "continue" =>
      LET c == sent[k].call IN
        /\ sent[k].url = Carried(c, "url")
        /\ sent[k].method = Carried(c, "method")
        /\ sent[k].headers = IF Carried(c, "headers") = Undef THEN Undef
                             ELSE "array(" \o Carried(c, "headers") \o ")"
        /\ sent[k].postData = IF Carried(c, "postData") = Undef THEN Undef
                              ELSE Encoded(Carried(c, "postData"))

\* C9 (as stated): Handled is terminal: once a Route has been resolved, no
\* later operation makes it resolvable again.
C9_HandledIsTerminal == [][Handled => Handled']_vars

\* C9 (amended): Handled is terminal until the Route is dispatched again. A
\* Route that is Handled leaves that state only by a new dispatch, which makes a
\* new outcome promise; every resolving call begun while the Route is Handled
\* fails with 'Route is already handled!', sends nothing and leaves the overlay
\* as it is; and an outcome promise, once resolved, never changes.
C9_HandledUntilRedispatched ==
  [][/\ (Handled /\ ~Handled') =>
          /\ Len(promises') = Len(promises) + 1
          /\ Len(invs') = Len(invs) + 1
          /\ handlingPromise' = Len(promises')
     /\ (Handled /\ Len(calls') = Len(calls) + 1) =>
          /\ calls'[Len(calls')].result = "AlreadyHandled"
          /\ sent' = sent
          /\ fallbackOverrides' = fallbackOverrides
          /\ Handled'
     /\ \A p \in 1..Len(promises) :
          promises[p] # "pending" => promises'[p] = promises[p]]_vars

\* After a fallback resolved the first dispatch, the Route was dispatched again
\* and a call of the second dispatch succeeded; a call made while the Route was
\* Handled failed.
C9_Witness ==
  /\ \E c, d \in CallIds :
       /\ calls[c].kind = "fallback" /\ calls[c].result = "ok" /\ calls[c].epoch = 1
       /\ calls[d].result = "ok" /\ calls[d].epoch = 2
  /\ \E c \in CallIds : calls[c].result = "AlreadyHandled"

\* C10 (as stated): handle returns only after both the user callback has settled
\* and the outcome promise of its dispatch has been resolved, and it returns
\* that outcome.
C10_HandleReturnsOutcome ==
  \A i \in InvIds :
    invs[i].pc = "returned" =>
      /\ invs[i].cb # "running"
      /\ promises[invs[i].promise] # "pending"
      /\ invs[i].ret = promises[invs[i].promise]

\* C10 (amended): handle returns only after both the user callback has returned
\* and the outcome promise of its dispatch has been resolved, and it returns
\* that outcome; except when the callback raised and the handler had been
\* stopped with 'ignoreErrors': then handle returns false, whatever the state
\* of the outcome promise. When the callback raised and the handler was not
\* stopped so, handle raises.
C10_HandleReturnsOutcomeOrIgnores ==
  \A i \in InvIds :
    /\ invs[i].pc = "returned" =>
         \/ /\ invs[i].cb = "returned"
            /\ promises[invs[i].promise] # "pending"
            /\ invs[i].ret = promises[invs[i].promise]
         \/ /\ invs[i].cb = "threw"
            /\ ignoreException[invs[i].handler]
            /\ invs[i].ret = "false"
    /\ invs[i].pc = "raised" => invs[i].cb = "threw"

\* One handle returned false after a fallback and the next returned true after
\* a terminal call, both with their callback returned.
C10_Witness ==
  \E i, j \in InvIds :
    /\ invs[i].pc = "returned" /\ invs[i].cb = "returned" /\ invs[i].ret = "false"
    /\ invs[j].pc = "returned" /\ invs[j].cb = "returned" /\ invs[j].ret = "true"

\* ==================================================== one handler, many Routes
\* One RouteHandler with an invocation budget, invoked on a fresh Route each
\* time, the invocations overlapping; promises[i] is the outcome promise of the
\* Route of invocation i, routeDidThrow[i] its _didThrow.

\* Number of Routes the dispatcher offers to the handler.
MaxInvocations == 3
\* Number of calls of stop('wait').
MaxStops == 1
\* Number.MAX_SAFE_INTEGER, the default of _times. It is 2^53 - 1 in the
\* program; the largest integer of the model checker stands for it here, and no
\* count of invocations comes near either.
MAX_SAFE_INTEGER == 2147483647
\* The budgets a handler is registered with.
TimesSet == {1, 2, 3, MAX_SAFE_INTEGER}
\* The handler of this specification.
TheHandler == 1

\* A willExpire that is true only once the budget is used up.
willExpireOnceSpent(h) == handledCount[h] >= times[h]

\* A willExpire that counts the invocations that have completed.
willExpireByCompleted(h) ==
  Cardinality({ i \in 1..Len(invs) : invs[i].handler = h /\ invs[i].pc # "awaiting" }) + 1
    >= times[h]

\* RouteHandler.willExpire
willExpire(h) == handledCount[h] + 1 >= times[h]

InitHandler ==
  /\ NoRoute /\ NoWebSocketRoute /\ NoRawHeaders /\ NoOther
  /\ promises = << >>
  /\ invs = << >>
  /\ handledCount = [h \in Handlers |-> 0]
  /\ ignoreException = [h \in Handlers |-> FALSE]
  /\ activeInvocations = [h \in Handlers |-> {}]
  /\ \E t \in TimesSet : times = [h \in Handlers |-> t]
  /\ routeDidThrow = << >>
  /\ registered = {TheHandler}
  /\ stops = << >>

\* RouteHandler.handle on a fresh Route, up to the await of _handleInternal:
\* the invocation enters _activeInvocations, is counted, the handling of its
\* Route starts and the user callback is called.
handleFreshRoute(h) ==
  /\ activeInvocations' = [activeInvocations EXCEPT ![h] = @ \cup {Len(invs) + 1}]
  /\ handledCount' = [handledCount EXCEPT ![h] = @ + 1]
  /\ promises' = _startHandling
  /\ routeDidThrow' = Append(routeDidThrow, FALSE)
  /\ invs' = Append(invs, [handler |-> h, promise |-> Len(promises'), cb |-> "running",
                           pc |-> "awaiting", ret |-> "none"])

\* The dispatcher offers a new Route to a handler of its list: it asks
\* willExpire first, takes the handler off the list when the answer is true,
\* and then invokes it, all without an await in between.
Dispatch(h) ==
  /\ h \in registered /\ Len(invs) < MaxInvocations
  /\ registered' = IF willExpire(h) THEN registered \ {h} ELSE registered
  /\ handleFreshRoute(h)
  /\ UNCHANGED << owner, scopeClosed, handlingPromise, didThrow, fallbackOverrides, sent,
                  calls, ignoreException, disp, times, stops, wsVars, rawVars, otherVars >>

\* A resolving call of user logic on the Route of invocation i succeeds:
\* _reportHandled resolves the outcome promise of that Route.
RouteReportsHandled(i, done) ==
  /\ i \in 1..Len(invs) /\ promises[i] = "pending"
  /\ promises' = [promises EXCEPT ![i] = done]
  /\ UNCHANGED << owner, scopeClosed, handlingPromise, didThrow, fallbackOverrides, sent,
                  calls, handlerVars, multiVars, wsVars, rawVars, otherVars >>

\* A resolving call of user logic on the Route of invocation i throws inside
\* _handleRoute, whose catch sets _didThrow.
RouteCallThrows(i) ==
  /\ i \in 1..Len(invs) /\ ~routeDidThrow[i]
  /\ routeDidThrow' = [routeDidThrow EXCEPT ![i] = TRUE]
  /\ UNCHANGED << owner, scopeClosed, routeVars, handlerVars, times, registered, stops,
                  wsVars, rawVars, otherVars >>

\* _handleImpl of invocation i after Promise.all fulfilled: the value of
\* _handleInternal is returned, and the finally block resolves `complete` and
\* leaves _activeInvocations.
HandleImplReturns(i) ==
  /\ i \in 1..Len(invs) /\ invs[i].pc = "awaiting"
  /\ invs[i].cb = "returned" /\ promises[invs[i].promise] # "pending"
  /\ invs' = [invs EXCEPT ![i].pc = "returned", ![i].ret = _handleInternal(i)]
  /\ activeInvocations' = [activeInvocations EXCEPT ![invs[i].handler] = @ \ {i}]
  /\ UNCHANGED << owner, scopeClosed, routeVars, handledCount, ignoreException, disp, extVars >>

\* A _handleImpl whose failing exit leaves the invocation in _activeInvocations.
HandleImplCatchesWithoutFinally(i) ==
  /\ i \in 1..Len(invs) /\ invs[i].pc = "awaiting"
  /\ invs[i].cb = "threw"
  /\ LET ret == HandleImplCatch(invs[i].handler) IN
       invs' = [invs EXCEPT ![i].pc = IF ret = "raised" THEN "raised" ELSE "returned",
                            ![i].ret = ret]
  /\ UNCHANGED << owner, scopeClosed, routeVars, handledCount, ignoreException,
                  activeInvocations, disp, extVars >>

\* _handleImpl of invocation i after Promise.all rejected: the catch block,
\* then the finally block.
HandleImplCatches(i) ==
  /\ i \in 1..Len(invs) /\ invs[i].pc = "awaiting"
  /\ invs[i].cb = "threw"
  /\ LET ret == HandleImplCatch(invs[i].handler) IN
       invs' = [invs EXCEPT ![i].pc = IF ret = "raised" THEN "raised" ELSE "returned",
                            ![i].ret = ret]
  /\ activeInvocations' = [activeInvocations EXCEPT ![invs[i].handler] = @ \ {i}]
  /\ UNCHANGED << owner, scopeClosed, routeVars, handledCount, ignoreException, disp, extVars >>

\* A stop('wait') whose await does not wait for anything.
StopReturnsAtOnce(s) ==
  /\ s \in 1..Len(stops) /\ stops[s].pc = "awaiting"
  /\ stops' = [stops EXCEPT ![s].pc = "returned"]
  /\ UNCHANGED << owner, scopeClosed, routeVars, handlerVars, times, routeDidThrow,
                  registered, wsVars, rawVars, otherVars >>

\* RouteHandler.stop('wait') after its await: Promise.all fulfils once every
\* awaited invocation has resolved its `complete`.
StopReturns(s) ==
  /\ s \in 1..Len(stops) /\ stops[s].pc = "awaiting"
  /\ \A i \in stops[s].promises : invs[i].pc # "awaiting"
  /\ stops' = [stops EXCEPT ![s].pc = "returned"]
  /\ UNCHANGED << owner, scopeClosed, routeVars, handlerVars, times, routeDidThrow,
                  registered, wsVars, rawVars, otherVars >>

NextHandler ==
  \/ Dispatch(TheHandler)
  \/ \E i \in 1..MaxInvocations, done \in {"true", "false"} : RouteReportsHandled(i, done)
  \/ \E i \in 1..MaxInvocations : RouteCallThrows(i)
  \/ \E i \in 1..MaxInvocations : CallbackReturns(i)
  \/ \E i \in 1..MaxInvocations : CallbackThrows(i)
  \/ \E i \in 1..MaxInvocations : HandleImplReturns(i)
  \/ \E i \in 1..MaxInvocations : HandleImplCatches(i)
  \/ stop(TheHandler, "ignoreErrors")
  \/ Len(stops) < MaxStops /\ stop(TheHandler, "wait")
  \/ \E s \in 1..MaxStops : StopReturns(s)

SpecHandler == InitHandler /\ [][NextHandler]_vars

\* ------------------------------------------------------- claims C11 to C14
\* The invocations of TheHandler that have started, and those still running.
Started == { i \in 1..Len(invs) : invs[i].handler = TheHandler }
Running == { i \in Started : invs[i].pc = "awaiting" }

\* C11, as stated: a handler registered with budget 2 reports willExpire() true
\* only after its second invocation has started, and its callback never runs a
\* third time under a dispatcher that asks willExpire before each invocation.
C11_ExpiresOnlyAfterSecondStart ==
  times[TheHandler] = 2 =>
    /\ willExpire(TheHandler) => Cardinality(Started) >= 2
    /\ Cardinality(Started) <= 2

\* C11, amended: a handler registered with budget 2 reports willExpire() true
\* from the start of its first invocation on, and not before; under a
\* dispatcher that asks willExpire before each invocation and unregisters the
\* handler when the answer is true, its callback never runs a third time, also
\* when invocations overlap.
C11_ExpiresFromFirstStart ==
  times[TheHandler] = 2 =>
    /\ willExpire(TheHandler) <=> Cardinality(Started) >= 1
    /\ Cardinality(Started) <= 2
    /\ Cardinality(Started) = 2 => TheHandler \notin registered

\* Two overlapping invocations of a handler of budget 2, which the dispatcher
\* has taken off its list, and a third Route could still be offered.
C11_Witness ==
  /\ times[TheHandler] = 2 /\ Cardinality(Running) = 2
  /\ TheHandler \notin registered /\ Len(invs) < MaxInvocations

\* C12: stop('wait') does not return while an invocation that was active when
\* stop was called, and whose Route had not thrown then, is still running; the
\* invocations whose Route had thrown are not among those it awaits.
C12_StopWaitsForUnthrownInvocations ==
  \A s \in 1..Len(stops) :
    /\ stops[s].pc = "returned" =>
         \A i \in stops[s].active \ stops[s].threw : i \notin Running
    /\ stops[s].promises \cap stops[s].threw = {}

\* A stop('wait') that has returned: it was called with two invocations active,
\* one on a Route that had thrown, which is still running, and one on a Route
\* that had not, which has completed.
C12_Witness ==
  \E s \in 1..Len(stops) :
    /\ stops[s].pc = "returned"
    /\ \E i \in stops[s].threw : i \in Running
    /\ \E j \in stops[s].active \ stops[s].threw : j \notin Running

\* The invocations of TheHandler whose handle has raised to the dispatcher.
Raised == { i \in Started : invs[i].pc = "raised" }

\* C13: stop('ignoreErrors') returns without waiting for an active invocation:
\* the step that sets the flag leaves every running invocation running. From
\* then on no handle of that handler raises to the dispatcher, whether its
\* invocation started before the stop or after: one whose callback throws
\* returns false.
C13_IgnoreErrorsSilencesInvocations ==
  [][ /\ (~ignoreException[TheHandler] /\ ignoreException'[TheHandler])
           => Running' = Running
      /\ ignoreException[TheHandler]
           => /\ ignoreException'[TheHandler]
              /\ Raised' = Raised
              /\ \A i \in Running \ Running' :
                   invs[i].cb = "threw" => invs'[i].ret = "false" ]_vars

\* After stop('ignoreErrors'): an invocation whose resolving call and callback
\* threw has returned false, and another is still running.
C13_Witness ==
  /\ ignoreException[TheHandler]
  /\ \E i \in Started \ Running :
       invs[i].cb = "threw" /\ routeDidThrow[i] /\ invs[i].ret = "false"
  /\ Running # {}

\* C14: an error thrown inside a handler callback propagates out of handle to
\* the dispatcher when the handler has not been stopped with 'ignoreErrors' by
\* the time the error is caught, and is swallowed, handle returning false, only
\* when it has.
C14_CallbackErrorPropagatesUnlessIgnored ==
  [][ \A i \in Running \ Running' :
        invs[i].cb = "threw" =>
          /\ ~ignoreException[TheHandler] => (i \in Raised' /\ invs'[i].ret = "raised")
          /\ ignoreException[TheHandler] => (i \notin Raised' /\ invs'[i].ret = "false") ]_vars

\* Two invocations whose callback threw: the handle of one raised, before the
\* stop, and that of the other returned false, after it.
C14_Witness ==
  /\ ignoreException[TheHandler]
  /\ \E i \in Raised : invs[i].cb = "threw"
  /\ \E j \in Started \ Running : invs[j].cb = "threw" /\ invs[j].ret = "false"

\* ============================================================ WebSocketRoute
\* One WebSocketRoute: its page leg and its server leg, the four callback
\* slots, the listeners of the channel events and the calls of user logic.

\* Number of events the channel delivers to the WebSocketRoute.
MaxWsEvents == 2
\* Number of calls user logic makes on the WebSocketRoute and its server leg.
MaxWsCalls == 2

\* A message as user logic sees it: a string, kept as its characters, or a
\* Buffer, kept as its bytes.
String(chars) == [type |-> "string", data |-> chars]
Buffer(bytes) == [type |-> "buffer", data |-> bytes]
\* The messages user logic sends.
MessageSet == { String(<< "h", "i" >>), Buffer(<< 0, 1, 2 >>), Buffer(<< 255 >>),
                Buffer(<< 250, 7 >>) }
\* typeof message === 'string'
isStringMessage(message) == message.type = "string"

\* The base64 alphabet, and the place of a character in it.
Base64Alphabet ==
  << "A", "B", "C", "D", "E", "F", "G", "H", "I", "J", "K", "L", "M", "N", "O", "P",
     "Q", "R", "S", "T", "U", "V", "W", "X", "Y", "Z", "a", "b", "c", "d", "e", "f",
     "g", "h", "i", "j", "k", "l", "m", "n", "o", "p", "q", "r", "s", "t", "u", "v",
     "w", "x", "y", "z", "0", "1", "2", "3", "4", "5", "6", "7", "8", "9", "+", "/" >>
Base64Char(n) == Base64Alphabet[n + 1]
Base64Index(c) == CHOOSE n \in 0..63 : Base64Alphabet[n + 1] = c

\* Buffer.toString('base64'): three bytes give four characters, a rest of one
\* or two bytes is padded with "=".
RECURSIVE toStringBase64(_)
toStringBase64(bytes) ==
  IF Len(bytes) = 0 THEN << >>
  ELSE IF Len(bytes) = 1
  THEN << Base64Char(bytes[1] \div 4), Base64Char((bytes[1] % 4) * 16), "=", "=" >>
  ELSE IF Len(bytes) = 2
  THEN << Base64Char(bytes[1] \div 4),
          Base64Char((bytes[1] % 4) * 16 + bytes[2] \div 16),
          Base64Char((bytes[2] % 16) * 4), "=" >>
  ELSE << Base64Char(bytes[1] \div 4),
          Base64Char((bytes[1] % 4) * 16 + bytes[2] \div 16),
          Base64Char((bytes[2] % 16) * 4 + bytes[3] \div 64),
          Base64Char(bytes[3] % 64) >> \o toStringBase64(SubSeq(bytes, 4, Len(bytes)))

\* Buffer.from(text, 'base64'): four characters give three bytes, a group that
\* ends in "=" or is cut short gives one or two.
RECURSIVE BufferFromBase64(_)
BufferFromBase64(text) ==
  LET group == SubSeq(text, 1, IF Len(text) < 4 THEN Len(text) ELSE 4)
      digits == SelectSeq(group, LAMBDA c : c # "=")
      n(k) == Base64Index(digits[k])
  IN IF Len(digits) < 2 THEN << >>
     ELSE IF Len(digits) = 2 THEN << n(1) * 4 + n(2) \div 16 >>
     ELSE IF Len(digits) = 3
     THEN << n(1) * 4 + n(2) \div 16, (n(2) % 16) * 16 + n(3) \div 4 >>
     ELSE << n(1) * 4 + n(2) \div 16, (n(2) % 16) * 16 + n(3) \div 4,
             (n(3) % 4) * 64 + n(4) >> \o BufferFromBase64(SubSeq(text, 5, Len(text)))

\* A send that never sets the flag.
FrameUnflagged(message) ==
  [message |-> IF isStringMessage(message) THEN message.data
               ELSE toStringBase64(message.data),
   isBase64 |-> FALSE]

\* What send and server.send put on the channel for a message.
Frame(message) ==
  IF isStringMessage(message)
  THEN [message |-> message.data, isBase64 |-> FALSE]
  ELSE [message |-> toStringBase64(message.data), isBase64 |-> TRUE]

\* What a message listener hands to the callback of its slot.
Decoded(frame) ==
  IF frame.isBase64 THEN Buffer(BufferFromBase64(frame.message)) ELSE String(frame.message)

\* The frames that reach the WebSocketRoute from a peer that did not get them
\* from this route: a text, and the bytes 0, 1, 2.
ForeignFrames == { [message |-> << "h", "i" >>, isBase64 |-> FALSE],
                   [message |-> << "A", "A", "E", "C" >>, isBase64 |-> TRUE] }
\* The close events of a leg, and the options user logic closes a leg with.
CloseSet == { [code |-> 1000, reason |-> "done", wasClean |-> TRUE],
              [code |-> 1006, reason |-> "", wasClean |-> FALSE] }
CloseOptions == { [code |-> 1000, reason |-> "done"] }

notWsVars == << owner, scopeClosed, routeVars, handlerVars, multiVars, rawVars,
               otherVars >>

InitWebSocketRoute ==
  /\ NoRoute /\ NoHandler /\ NoMulti /\ NoRawHeaders /\ NoOther
  /\ connected = FALSE
  /\ onPageMessage = 0 /\ onPageClose = 0 /\ onServerMessage = 0 /\ onServerClose = 0
  /\ wsSent = << >> /\ wsEvents = << >> /\ wsCalls = << >> /\ wsHandle = "idle"

\* A command on the channel: issued by a call of user logic (by = "call", with
\* the message the call was given), by the listener of an event ("listener") or
\* by _afterHandle.
WsCommand(cmd, params, by, payload) ==
  [cmd |-> cmd, params |-> params, by |-> by, payload |-> payload]

\* A call of user logic, with its result and where handle was at the time.
WsCall(call, result) == [call |-> call, result |-> result, at |-> wsHandle]

\* A listener of the channel. The event goes to the callback of its slot when
\* there is one, and only then is it decoded; otherwise the listener forwards
\* it with the given command, or does nothing. wsEvents records the event, the
\* callback that got it with its argument, and the command that forwarded it;
\* echoOf is the command of this route that the peer sends back, if any.
Listener(event, params, echoOf, slot, arg, forwards, cmd) ==
  /\ Len(wsEvents) < MaxWsEvents
  /\ IF slot # 0
     THEN /\ wsEvents' = Append(wsEvents, [event |-> event, params |-> params, echoOf |-> echoOf,
                                           cb |-> slot, arg |-> arg, cmd |-> 0])
          /\ UNCHANGED wsSent
     ELSE IF forwards
     THEN /\ wsSent' = Append(wsSent, WsCommand(cmd, params, "listener", << >>))
          /\ wsEvents' = Append(wsEvents, [event |-> event, params |-> params, echoOf |-> echoOf,
                                           cb |-> 0, arg |-> << >>, cmd |-> Len(wsSent) + 1])
     ELSE /\ wsEvents' = Append(wsEvents, [event |-> event, params |-> params, echoOf |-> echoOf,
                                           cb |-> 0, arg |-> << >>, cmd |-> 0])
          /\ UNCHANGED wsSent
  /\ UNCHANGED << connected, onPageMessage, onPageClose, onServerMessage, onServerClose,
                  wsCalls, wsHandle, notWsVars >>

\* A messageFromPage listener that forwards whether connected or not.
messageFromPageAlwaysForwarding(frame, echoOf) ==
  Listener("messageFromPage", frame, echoOf, onPageMessage, Decoded(frame), TRUE, "sendToServer")

\* The listener of 'messageFromPage'.
messageFromPage(frame, echoOf) ==
  Listener("messageFromPage", frame, echoOf, onPageMessage, Decoded(frame),
           connected, "sendToServer")

\* The listener of 'messageFromServer'.
messageFromServer(frame, echoOf) ==
  Listener("messageFromServer", frame, echoOf, onServerMessage, Decoded(frame),
           TRUE, "sendToPage")

\* A closePage listener that forwards without looking for a callback.
closePageIgnoringCallback(c) ==
  Listener("closePage", c, 0, 0, [code |-> c.code, reason |-> c.reason],
           TRUE, "closeServer")

\* The listener of 'closePage'.
closePage(c) ==
  Listener("closePage", c, 0, onPageClose, [code |-> c.code, reason |-> c.reason],
           TRUE, "closeServer")

\* A closeServer listener that takes the close of the server leg as the end of
\* the connection.
closeServerDisconnecting(c) ==
  /\ Len(wsEvents) < MaxWsEvents
  /\ connected' = FALSE
  /\ wsEvents' = Append(wsEvents, [event |-> "closeServer", params |-> c, echoOf |-> 0,
                                   cb |-> onServerClose,
                                   arg |-> [code |-> c.code, reason |-> c.reason], cmd |-> 0])
  /\ UNCHANGED << onPageMessage, onPageClose, onServerMessage, onServerClose, wsSent,
                  wsCalls, wsHandle, notWsVars >>

\* The listener of 'closeServer'.
closeServer(c) ==
  Listener("closeServer", c, 0, onServerClose, [code |-> c.code, reason |-> c.reason],
           TRUE, "closePage")

\* User logic has the WebSocketRoute from the start of its handler's callback.
CanCall == wsHandle # "idle" /\ Len(wsCalls) < MaxWsCalls

\* The callback a call installs is known by the place of the call in wsCalls.
NewCallback == Len(wsCalls) + 1

\* WebSocketRoute.onMessage
onMessage ==
  /\ CanCall
  /\ onPageMessage' = NewCallback
  /\ wsCalls' = Append(wsCalls, WsCall("onMessage", "ok"))
  /\ UNCHANGED << connected, onPageClose, onServerMessage, onServerClose, wsSent, wsEvents,
                  wsHandle, notWsVars >>

\* WebSocketRoute.onClose
onClose ==
  /\ CanCall
  /\ onPageClose' = NewCallback
  /\ wsCalls' = Append(wsCalls, WsCall("onClose", "ok"))
  /\ UNCHANGED << connected, onPageMessage, onServerMessage, onServerClose, wsSent, wsEvents,
                  wsHandle, notWsVars >>

\* onMessage of the server leg
server_onMessage ==
  /\ CanCall
  /\ onServerMessage' = NewCallback
  /\ wsCalls' = Append(wsCalls, WsCall("server.onMessage", "ok"))
  /\ UNCHANGED << connected, onPageMessage, onPageClose, onServerClose, wsSent, wsEvents,
                  wsHandle, notWsVars >>

\* onClose of the server leg
server_onClose ==
  /\ CanCall
  /\ onServerClose' = NewCallback
  /\ wsCalls' = Append(wsCalls, WsCall("server.onClose", "ok"))
  /\ UNCHANGED << connected, onPageMessage, onPageClose, onServerMessage, wsSent, wsEvents,
                  wsHandle, notWsVars >>

\* A call that issues one command and changes nothing else.
Issue(call, cmd, params, payload) ==
  /\ CanCall
  /\ wsSent' = Append(wsSent, WsCommand(cmd, params, "call", payload))
  /\ wsCalls' = Append(wsCalls, WsCall(call, "ok"))
  /\ UNCHANGED << connected, onPageMessage, onPageClose, onServerMessage, onServerClose,
                  wsEvents, wsHandle, notWsVars >>

\* WebSocketRoute.send
send(message) == Issue("send", "sendToPage", Frame(message), message)

\* send of the server leg
server_send(message) == Issue("server.send", "sendToServer", Frame(message), message)

\* WebSocketRoute.close: { ...options, wasClean: true }
close(options) ==
  Issue("close", "closePage",
        [code |-> options.code, reason |-> options.reason, wasClean |-> TRUE], << >>)

\* close of the server leg
server_close(options) ==
  Issue("server.close", "closeServer",
        [code |-> options.code, reason |-> options.reason, wasClean |-> TRUE], << >>)

\* A connectToServer without its guard.
connectToServerUnguarded ==
  /\ CanCall
  /\ connected' = TRUE
  /\ wsSent' = Append(wsSent, WsCommand("connect", << >>, "call", << >>))
  /\ wsCalls' = Append(wsCalls, WsCall("connectToServer", "ok"))
  /\ UNCHANGED << onPageMessage, onPageClose, onServerMessage, onServerClose, wsEvents,
                  wsHandle, notWsVars >>

\* A connectToServer that delivers to the server the page messages that came
\* before it and went to no callback.
connectToServerFlushing ==
  /\ CanCall
  /\ IF connected
     THEN /\ wsCalls' = Append(wsCalls, WsCall("connectToServer",
                                                "Already connected to the server"))
          /\ UNCHANGED << connected, wsSent >>
     ELSE /\ connected' = TRUE
          /\ LET dropped == SelectSeq(wsEvents, LAMBDA e : e.event = "messageFromPage"
                                                            /\ e.cb = 0 /\ e.cmd = 0)
             IN wsSent' = Append(wsSent, WsCommand("connect", << >>, "call", << >>))
                            \o [i \in 1..Len(dropped) |->
                                  WsCommand("sendToServer", dropped[i].params, "listener", << >>)]
          /\ wsCalls' = Append(wsCalls, WsCall("connectToServer", "ok"))
  /\ UNCHANGED << onPageMessage, onPageClose, onServerMessage, onServerClose, wsEvents,
                  wsHandle, notWsVars >>

\* WebSocketRoute.connectToServer
connectToServer ==
  /\ CanCall
  /\ IF connected
     THEN /\ wsCalls' = Append(wsCalls, WsCall("connectToServer",
                                                "Already connected to the server"))
          /\ UNCHANGED << connected, wsSent >>
     ELSE /\ connected' = TRUE
          /\ wsSent' = Append(wsSent, WsCommand("connect", << >>, "call", << >>))
          /\ wsCalls' = Append(wsCalls, WsCall("connectToServer", "ok"))
  /\ UNCHANGED << onPageMessage, onPageClose, onServerMessage, onServerClose, wsEvents,
                  wsHandle, notWsVars >>

\* connectToServer of the server leg: it throws.
server_connectToServer ==
  /\ CanCall
  /\ wsCalls' = Append(wsCalls,
       WsCall("server.connectToServer",
              "connectToServer must be called on the page-side WebSocketRoute"))
  /\ UNCHANGED << connected, onPageMessage, onPageClose, onServerMessage, onServerClose,
                  wsSent, wsEvents, wsHandle, notWsVars >>

\* ---------------------------------------------------- WebSocketRouteHandler
\* WebSocketRouteHandler.handle up to its first await: the callback is called.
handleWebSocketRoute ==
  /\ wsHandle = "idle"
  /\ wsHandle' = "callback"
  /\ UNCHANGED << connected, onPageMessage, onPageClose, onServerMessage, onServerClose,
                  wsSent, wsEvents, wsCalls, notWsVars >>

\* The callback returns, or its promise fulfils: handle goes on to _afterHandle.
WsCallbackReturns ==
  /\ wsHandle = "callback"
  /\ wsHandle' = "afterHandle"
  /\ UNCHANGED << connected, onPageMessage, onPageClose, onServerMessage, onServerClose,
                  wsSent, wsEvents, wsCalls, notWsVars >>

\* The callback throws, or its promise rejects: handle raises, and _afterHandle
\* is not reached.
WsCallbackThrows ==
  /\ wsHandle = "callback"
  /\ wsHandle' = "raised"
  /\ UNCHANGED << connected, onPageMessage, onPageClose, onServerMessage, onServerClose,
                  wsSent, wsEvents, wsCalls, notWsVars >>

\* An _afterHandle that sends ensureOpened whether connected or not.
_afterHandleAlwaysOpening ==
  /\ wsHandle = "afterHandle"
  /\ wsHandle' = "done"
  /\ wsSent' = Append(wsSent, WsCommand("ensureOpened", << >>, "afterHandle", << >>))
  /\ UNCHANGED << connected, onPageMessage, onPageClose, onServerMessage, onServerClose,
                  wsEvents, wsCalls, notWsVars >>

\* WebSocketRoute._afterHandle
_afterHandle ==
  /\ wsHandle = "afterHandle"
  /\ wsHandle' = "done"
  /\ IF connected THEN UNCHANGED wsSent
     ELSE wsSent' = Append(wsSent, WsCommand("ensureOpened", << >>, "afterHandle", << >>))
  /\ UNCHANGED << connected, onPageMessage, onPageClose, onServerMessage, onServerClose,
                  wsEvents, wsCalls, notWsVars >>

\* The frames a leg may receive: foreign ones, and those this route sent with
\* the given command, which the peer sends back.
Echoes(cmd) == { k \in 1..Len(wsSent) : wsSent[k].cmd = cmd /\ wsSent[k].by = "call" }

NextWebSocketRoute ==
  \/ \E f \in ForeignFrames : messageFromPage(f, 0)
  \/ \E k \in Echoes("sendToPage") : messageFromPage(wsSent[k].params, k)
  \/ \E f \in ForeignFrames : messageFromServer(f, 0)
  \/ \E k \in Echoes("sendToServer") : messageFromServer(wsSent[k].params, k)
  \/ \E c \in CloseSet : closePage(c)
  \/ \E c \in CloseSet : closeServer(c)
  \/ onMessage
  \/ onClose
  \/ server_onMessage
  \/ server_onClose
  \/ \E m \in MessageSet : send(m)
  \/ \E m \in MessageSet : server_send(m)
  \/ \E o \in CloseOptions : close(o)
  \/ \E o \in CloseOptions : server_close(o)
  \/ connectToServer
  \/ server_connectToServer
  \/ handleWebSocketRoute
  \/ WsCallbackReturns
  \/ WsCallbackThrows
  \/ _afterHandle

SpecWebSocketRoute == InitWebSocketRoute /\ [][NextWebSocketRoute]_vars

\* ------------------------------------------------------- claims C15 to C19
\* The leg an event arrives on, and whether a callback is installed on it.
PageEvents == {"messageFromPage", "closePage"}
Claimed(event) ==
  IF event \in PageEvents THEN onPageMessage # 0 \/ onPageClose # 0
  ELSE onServerMessage # 0 \/ onServerClose # 0
\* The command that forwards an event to the opposite leg.
Forwarding(event) ==
  CASE event = "messageFromPage" -> "sendToServer"
    [] event = "messageFromServer" -> "sendToPage"
    [] event = "closePage" -> "closeServer"
    [] event = "closeServer" -> "closePage"
\* The event a step receives: the last of wsEvents after the step.
Received == wsEvents'[Len(wsEvents')]
Forwarded == wsSent' = Append(wsSent, WsCommand(Forwarding(Received.event), Received.params,
                                                "listener", << >>))

\* C15, as stated: while no callback is installed on a leg, every event of that
\* leg is forwarded to the opposite leg with the same payload and flag, or the
\* same code, reason and wasClean.
C15_UnclaimedLegForwards ==
  [][ (Len(wsEvents') > Len(wsEvents) /\ ~Claimed(Received.event)) => Forwarded ]_vars

\* C15, amended: while no callback is installed on a leg, every event of that
\* leg is forwarded to the opposite leg with the same payload and flag, or the
\* same code, reason and wasClean, except that a message from the page is
\* forwarded only once connectToServer has been called: before that it is
\* dropped, and no command is issued for it.
C15_UnclaimedLegForwardsOnceConnected ==
  [][ (Len(wsEvents') > Len(wsEvents) /\ ~Claimed(Received.event)) =>
        IF Received.event = "messageFromPage" /\ ~connected
        THEN wsSent' = wsSent
        ELSE Forwarded ]_vars

\* With no callback installed at all: one message from the page was dropped,
\* and a later one, the bytes 0, 1, 2, was forwarded to the server as it came.
C15_Witness ==
  /\ onPageMessage = 0 /\ onPageClose = 0 /\ onServerMessage = 0 /\ onServerClose = 0
  /\ \E m, n \in 1..Len(wsEvents) :
       /\ m < n
       /\ wsEvents[m].event = "messageFromPage" /\ wsEvents[m].cmd = 0
       /\ wsEvents[n].event = "messageFromPage" /\ wsEvents[n].cmd # 0
       /\ wsEvents[n].params.isBase64
       /\ wsSent[wsEvents[n].cmd] =
            WsCommand("sendToServer", wsEvents[n].params, "listener", << >>)

\* The call that installs the callback of an event, and the callback installed
\* last for it: 0 when there is none.
InstallOf(event) ==
  CASE event = "messageFromPage" -> "onMessage"
    [] event = "messageFromServer" -> "server.onMessage"
    [] event = "closePage" -> "onClose"
    [] event = "closeServer" -> "server.onClose"
Installed(event) ==
  LET ks == { k \in 1..Len(wsCalls) : wsCalls[k].call = InstallOf(event) }
  IN IF ks = {} THEN 0 ELSE CHOOSE k \in ks : \A j \in ks : j <= k
\* What the callback of an event is called with.
ArgumentOf(event, params) ==
  IF event \in {"messageFromPage", "messageFromServer"} THEN Decoded(params)
  ELSE [code |-> params.code, reason |-> params.reason]

\* C16, as stated: once onMessage or onClose has been installed on a leg, every
\* later event of that leg is delivered only to the callback and no command is
\* issued for it.
C16_ClaimedLegDeliversEveryEvent ==
  [][ (Len(wsEvents') > Len(wsEvents) /\ Claimed(Received.event)) =>
        (Received.cb # 0 /\ wsSent' = wsSent) ]_vars

\* C16, amended: onMessage claims the messages of its leg and onClose its close
\* events, each for itself. Once one of them has been installed, every later
\* event of that kind on that leg is delivered only to the callback installed
\* last, decoded, and no command is issued for it; events of the other kind are
\* still forwarded by default until their own callback is installed.
C16_InstalledCallbackGetsItsEvents ==
  [][ Len(wsEvents') > Len(wsEvents) =>
        /\ Installed(Received.event) # 0 =>
             /\ Received.cb = Installed(Received.event)
             /\ Received.arg = ArgumentOf(Received.event, Received.params)
             /\ wsSent' = wsSent
        /\ Installed(Received.event) = 0 => Received.cb = 0
        /\ (Installed(Received.event) = 0 /\ Received.event # "messageFromPage") => Forwarded
      ]_vars

\* onMessage is installed on the page leg and onClose is not: a message from
\* the page went to the callback and no command was issued for it, and a close
\* from the page was forwarded to the server.
C16_Witness ==
  /\ onPageMessage # 0 /\ onPageClose = 0
  /\ \E m, n \in 1..Len(wsEvents) :
       /\ wsEvents[m].event = "messageFromPage" /\ wsEvents[m].cb = onPageMessage
       /\ wsEvents[m].cmd = 0
       /\ wsEvents[n].event = "closePage" /\ wsEvents[n].cb = 0
       /\ wsEvents[n].cmd # 0 /\ wsSent[wsEvents[n].cmd].cmd = "closeServer"

\* The calls of connectToServer on the page leg, and the commands of a kind.
ConnectCalls == { k \in 1..Len(wsCalls) : wsCalls[k].call = "connectToServer" }
Commands(cmd) == { k \in 1..Len(wsSent) : wsSent[k].cmd = cmd }

\* C17: the first connectToServer on a WebSocketRoute succeeds and every later
\* one fails with 'Already connected to the server'; the connect command is
\* sent at most once for the route, by the call that succeeded.
C17_ConnectAtMostOnce ==
  /\ Cardinality(Commands("connect")) = (IF ConnectCalls = {} THEN 0 ELSE 1)
  /\ connected <=> ConnectCalls # {}
  /\ \A k \in ConnectCalls :
       wsCalls[k].result =
         IF \A j \in ConnectCalls : k <= j THEN "ok" ELSE "Already connected to the server"

\* connectToServer was called twice: the second call failed and one connect
\* command was sent.
C17_Witness ==
  /\ Cardinality(ConnectCalls) = 2
  /\ \E k \in ConnectCalls : wsCalls[k].result = "Already connected to the server"
  /\ Cardinality(Commands("connect")) = 1

\* The connectToServer calls that succeeded before _afterHandle ran.
ConnectedBeforeAfterHandle ==
  { k \in ConnectCalls : wsCalls[k].result = "ok" /\ wsCalls[k].at \in {"callback", "afterHandle"} }

\* C18: when handle has run the callback to its end, _afterHandle sends
\* ensureOpened if and only if connectToServer has not been called on the route
\* by then; a route on which connectToServer was called during the callback
\* never gets ensureOpened. ensureOpened is sent by nothing else, at most once,
\* and not at all when the callback throws.
C18_EnsureOpenedIffNeverConnected ==
  /\ wsHandle = "done" =>
       (Commands("ensureOpened") # {} <=> ConnectedBeforeAfterHandle = {})
  /\ wsHandle # "done" => Commands("ensureOpened") = {}
  /\ (\E k \in ConnectCalls : wsCalls[k].result = "ok" /\ wsCalls[k].at = "callback")
       => Commands("ensureOpened") = {}
  /\ Cardinality(Commands("ensureOpened")) <= 1
  /\ \A k \in Commands("ensureOpened") : wsSent[k].by = "afterHandle"

\* handle is done for a callback that installed onMessage and did not connect:
\* ensureOpened was sent.
C18_Witness ==
  /\ wsHandle = "done" /\ ~connected /\ onPageMessage # 0
  /\ Commands("ensureOpened") # {}

\* The messages user logic sent, as commands, and the events that are a frame
\* of this route sent back and delivered to a callback.
Sends == { k \in 1..Len(wsSent) :
             wsSent[k].by = "call" /\ wsSent[k].cmd \in {"sendToPage", "sendToServer"} }
Returned == { n \in 1..Len(wsEvents) : wsEvents[n].echoOf # 0 /\ wsEvents[n].cb # 0 }

\* C19: a Buffer sent on a leg goes out base64-encoded with isBase64 set, and a
\* string goes out as it is with isBase64 clear; when the frame is delivered to
\* the callback of the receiving leg, the callback gets the bytes, or the text,
\* that were sent.
C19_BinaryRoundTrip ==
  /\ \A k \in Sends :
       /\ wsSent[k].params.isBase64 <=> ~isStringMessage(wsSent[k].payload)
       /\ isStringMessage(wsSent[k].payload) => wsSent[k].params.message = wsSent[k].payload.data
       /\ wsSent[k].payload = Buffer(<< 0, 1, 2 >>)
            => wsSent[k].params.message = << "A", "A", "E", "C" >>
       /\ wsSent[k].payload = Buffer(<< 255 >>)
            => wsSent[k].params.message = << "/", "w", "=", "=" >>
       /\ wsSent[k].payload = Buffer(<< 250, 7 >>)
            => wsSent[k].params.message = << "+", "g", "c", "=" >>
  /\ \A n \in Returned : wsEvents[n].arg = wsSent[wsEvents[n].echoOf].payload
  /\ \A n \in 1..Len(wsEvents) :
       (wsEvents[n].cb # 0 /\ wsEvents[n].params = [message |-> << "A", "A", "E", "C" >>,
                                                    isBase64 |-> TRUE])
         => wsEvents[n].arg = Buffer(<< 0, 1, 2 >>)

\* The bytes 250, 7 were sent to the server, came back and were delivered to
\* the callback of the server leg.
C19_Witness ==
  \E n \in Returned :
    /\ wsEvents[n].event = "messageFromServer"
    /\ wsEvents[n].params.isBase64
    /\ wsEvents[n].arg = Buffer(<< 250, 7 >>)

\* ================================================================ RawHeaders
\* One RawHeaders built from a header list, and lookups made on it.

\* Length of the header list the RawHeaders is built from.
MaxHeaders == 3
\* Number of lookups made on it.
MaxLookups == 2

\* Header names as they are written in a header list or in a lookup, and the
\* header values.
NameSet == {"Set-Cookie", "set-cookie", "SET-COOKIE", "X-A", "x-a", "b"}
ValueSet == {"v1", "v2"}
HeaderSet == [name : NameSet, value : ValueSet]
\* The names that differ in letter case only.
NameClasses == { {"Set-Cookie", "set-cookie", "SET-COOKIE"}, {"X-A", "x-a"}, {"b"} }

\* String.toLowerCase
toLowerCase(name) ==
  CASE name \in {"Set-Cookie", "set-cookie", "SET-COOKIE"} -> "set-cookie"
    [] name \in {"X-A", "x-a"} -> "x-a"
    [] name \in {"X-R", "x-r"} -> "x-r"
    [] name \in {"Content-Type", "content-type"} -> "content-type"
    [] name \in {"Content-Length", "content-length"} -> "content-length"
    [] OTHER -> name

\* MultiMap: the keys in the order of their first set, each with its values in
\* the order they were set.
MultiMapKeys(map) == { map[i].key : i \in 1..Len(map) }
MultiMapSet(map, key, value) ==
  IF key \in MultiMapKeys(map)
  THEN [i \in 1..Len(map) |->
          IF map[i].key = key THEN [map[i] EXCEPT !.values = Append(@, value)] ELSE map[i]]
  ELSE Append(map, [key |-> key, values |-> << value >>])
MultiMapGet(map, key) ==
  IF key \in MultiMapKeys(map)
  THEN (CHOOSE e \in { map[i] : i \in 1..Len(map) } : e.key = key).values
  ELSE << >>

\* The RawHeaders constructor: every header is set under its lower-cased name.
RECURSIVE RawHeaders(_)
RawHeaders(headers) ==
  IF headers = << >> THEN << >>
  ELSE LET header == headers[Len(headers)]
       IN MultiMapSet(RawHeaders(SubSeq(headers, 1, Len(headers) - 1)),
                      toLowerCase(header.name), header.value)

\* Header lists of a length up to n.
RECURSIVE HeaderLists(_)
HeaderLists(n) ==
  IF n = 0 THEN { << >> }
  ELSE LET shorter == HeaderLists(n - 1)
       IN shorter \cup { Append(l, h) : l \in shorter, h \in HeaderSet }

\* A getAll that looks the name up as it is written.
getAllAsWritten(name) == MultiMapGet(headersMap, name)

\* RawHeaders.getAll
getAll(name) == MultiMapGet(headersMap, toLowerCase(name))

\* The JavaScript value null.
Null == "null"

\* Array.prototype.join
RECURSIVE join(_, _)
join(values, separator) ==
  IF Len(values) = 0 THEN ""
  ELSE IF Len(values) = 1 THEN values[1]
  ELSE join(SubSeq(values, 1, Len(values) - 1), separator) \o separator \o values[Len(values)]

\* A get that joins with comma-space whatever the name.
getJoiningWithComma(name) ==
  IF Len(getAll(name)) = 0 THEN Null ELSE join(getAll(name), ", ")

\* RawHeaders.get
get(name) ==
  LET values == getAll(name)
  IN IF Len(values) = 0 THEN Null
     ELSE join(values, IF toLowerCase(name) = "set-cookie" THEN "\n" ELSE ", ")

InitRawHeaders ==
  /\ NoRoute /\ NoHandler /\ NoMulti /\ NoWebSocketRoute /\ NoOther
  /\ headersArray \in HeaderLists(MaxHeaders)
  /\ headersMap = RawHeaders(headersArray)
  /\ lookups = << >>

\* User logic calls getAll.
CallGetAll(name) ==
  /\ Len(lookups) < MaxLookups
  /\ lookups' = Append(lookups, [call |-> "getAll", name |-> name, result |-> getAll(name)])
  /\ UNCHANGED << owner, scopeClosed, routeVars, handlerVars, multiVars, wsVars,
                  headersArray, headersMap, otherVars >>

\* User logic calls get.
CallGet(name) ==
  /\ Len(lookups) < MaxLookups
  /\ lookups' = Append(lookups, [call |-> "get", name |-> name, result |-> get(name)])
  /\ UNCHANGED << owner, scopeClosed, routeVars, handlerVars, multiVars, wsVars,
                  headersArray, headersMap, otherVars >>

NextRawHeaders ==
  \/ \E name \in NameSet : CallGetAll(name)
  \/ \E name \in NameSet : CallGet(name)

SpecRawHeaders == InitRawHeaders /\ [][NextRawHeaders]_vars

\* -------------------------------------------------------------- claim C20
\* The values of the headers of the list whose name is the given one but for
\* letter case, in the order of the list.
SameName(a, b) == \E class \in NameClasses : a \in class /\ b \in class
ValuesOf(name) ==
  LET named == SelectSeq(headersArray, LAMBDA h : SameName(h.name, name))
  IN [i \in 1..Len(named) |-> named[i].value]

\* C20: getAll(name) returns the values of all the headers whose name equals
\* name but for letter case, in the order of the header list, and the empty
\* list when there is none.
C20_GetAllIsCaseInsensitiveAndOrdered ==
  \A l \in 1..Len(lookups) :
    lookups[l].call = "getAll" => lookups[l].result = ValuesOf(lookups[l].name)

\* A list with set-cookie: v2, x-a, SET-COOKIE: v1, on which getAll("Set-Cookie")
\* returned v2, v1 and getAll("b") returned the empty list.
C20_Witness ==
  /\ Len(headersArray) = 3
  /\ headersArray[1] = [name |-> "set-cookie", value |-> "v2"]
  /\ toLowerCase(headersArray[2].name) = "x-a"
  /\ headersArray[3] = [name |-> "SET-COOKIE", value |-> "v1"]
  /\ \E l \in 1..Len(lookups) :
       /\ lookups[l].call = "getAll" /\ lookups[l].name = "Set-Cookie"
       /\ lookups[l].result = << "v2", "v1" >>
  /\ \E l \in 1..Len(lookups) :
       lookups[l].call = "getAll" /\ lookups[l].name = "b" /\ lookups[l].result = << >>

\* -------------------------------------------------------------- claim C21
\* The values one after the other, each but the first preceded by the separator.
RECURSIVE Joined(_, _)
Joined(values, separator) ==
  IF Len(values) = 1 THEN values[1]
  ELSE values[1] \o separator \o Joined(Tail(values), separator)

\* C21: get(name) returns null when no header of the list has that name;
\* otherwise it returns the values of getAll(name) joined with a newline when
\* name is set-cookie in any letter case, and with comma-space otherwise.
C21_GetJoinsValues ==
  \A l \in 1..Len(lookups) :
    lookups[l].call = "get" =>
      lookups[l].result =
        IF ValuesOf(lookups[l].name) = << >> THEN Null
        ELSE Joined(ValuesOf(lookups[l].name),
                    IF lookups[l].name \in {"Set-Cookie", "set-cookie", "SET-COOKIE"}
                    THEN "\n" ELSE ", ")

\* On a list with two set-cookie headers and no header b, get("SET-COOKIE")
\* returned the two values on two lines and get("b") returned null.
C21_Witness ==
  /\ \E l \in 1..Len(lookups) :
       /\ lookups[l].call = "get" /\ lookups[l].name = "SET-COOKIE"
       /\ lookups[l].result = "v2\nv1"
  /\ \E l \in 1..Len(lookups) :
       lookups[l].call = "get" /\ lookups[l].name = "b" /\ lookups[l].result = Null

\* ========================================================== redirect chains
\* Requests created one after the other, each naming in its initializer the
\* Request it was redirected from, or none. requests[r] holds _redirectedFrom
\* and _redirectedTo of the r-th Request, 0 standing for null.

\* Number of Requests created.
MaxRequests == 5

InitRequests ==
  /\ NoRoute /\ NoHandler /\ NoMulti /\ NoWebSocketRoute /\ NoRawHeaders /\ NoFulfills
  /\ NoPrepared /\ NoApplies /\ NoMore
  /\ requests = << >>

\* A constructor that does not tell the predecessor about its successor.
RequestNotLinkingBack(redirectedFrom) ==
  /\ Len(requests) < MaxRequests
  /\ requests' = Append(requests, [redirectedFrom |-> redirectedFrom, redirectedTo |-> 0])
  /\ UNCHANGED << owner, scopeClosed, routeVars, handlerVars, multiVars, wsVars, rawVars,
                  fulfills, prepared, initializer, applies, moreVars >>

\* The Request constructor: _redirectedFrom is taken from the initializer, and
\* the Request it names gets this one as its _redirectedTo.
Request(redirectedFrom) ==
  /\ Len(requests) < MaxRequests
  /\ requests' =
       Append([r \in 1..Len(requests) |->
                 IF r = redirectedFrom
                 THEN [requests[r] EXCEPT !.redirectedTo = Len(requests) + 1]
                 ELSE requests[r]],
              [redirectedFrom |-> redirectedFrom, redirectedTo |-> 0])
  /\ UNCHANGED << owner, scopeClosed, routeVars, handlerVars, multiVars, wsVars, rawVars,
                  fulfills, prepared, initializer, applies, moreVars >>

\* Request.redirectedFrom, Request.redirectedTo
redirectedFrom(r) == requests[r].redirectedFrom
redirectedTo(r) == requests[r].redirectedTo

\* Request._finalRequest
RECURSIVE _finalRequest(_)
_finalRequest(r) ==
  IF requests[r].redirectedTo # 0 THEN _finalRequest(requests[r].redirectedTo) ELSE r

NextRequests ==
  \/ \E from \in 0..MaxRequests : from <= Len(requests) /\ Request(from)

SpecRequests == InitRequests /\ [][NextRequests]_vars

\* -------------------------------------------------------------- claim C22
RequestIds == 1..Len(requests)
\* The Request the initializer of r named, and the Requests r descends from.
Predecessor(r) == requests[r].redirectedFrom
RECURSIVE UpTo(_)
UpTo(r) == {r} \cup (IF Predecessor(r) = 0 THEN {} ELSE UpTo(Predecessor(r)))
\* The Requests were created as chains: each new one named the last Request of
\* a chain, so that no Request was named twice.
BuiltInOrder ==
  \A a, b \in RequestIds : (a # b /\ Predecessor(a) # 0) => Predecessor(a) # Predecessor(b)
\* The tail of the chain of r: the Request that descends from r and that no
\* Request names.
IsTailOf(t, r) == r \in UpTo(t) /\ \A b \in RequestIds : Predecessor(b) # t

\* C22: for redirect chains built by creating the Requests in order, each new
\* Request naming its predecessor, finalRequest() of every Request is the tail
\* of its chain, redirectedFrom() is the predecessor, null for the first of a
\* chain, and redirectedTo and redirectedFrom are inverse links.
C22_RedirectChain ==
  BuiltInOrder =>
    \A r \in RequestIds :
      /\ IsTailOf(_finalRequest(r), r)
      /\ redirectedFrom(r) = Predecessor(r)
      /\ \A q \in RequestIds : redirectedTo(r) = q <=> redirectedFrom(q) = r
      /\ redirectedTo(r) = 0 <=> \A q \in RequestIds : redirectedFrom(q) # r

\* The chain A -> B -> C next to a Request that was not redirected:
\* finalRequest of A is C.
C22_Witness ==
  /\ BuiltInOrder /\ Len(requests) >= 4
  /\ \E a, b, c \in RequestIds :
       /\ Predecessor(a) = 0 /\ Predecessor(b) = a /\ Predecessor(c) = b
       /\ _finalRequest(a) = c /\ _finalRequest(b) = c /\ _finalRequest(c) = c
  /\ \E d \in RequestIds : Predecessor(d) = 0 /\ redirectedTo(d) = 0

\* ============================================================ Route.fulfill
\* What _innerFulfill makes of its options: the file and the response body it
\* reads, and the fulfill command it sends. Strings are kept as their
\* characters and Buffers as their bytes, as for the WebSocketRoute; statuses
\* are kept as their decimal text, so that undefined can stand next to them.

\* Number of calls of fulfill.
MaxFulfills == 1

\* undefined, where a string or a Buffer could stand.
Undefined == [type |-> "undefined", data |-> << >>]
\* A headers option: not given, or an object with its entries in key order.
NoHeaders == [given |-> FALSE, entries |-> << >>]
HeadersObject(entries) == [given |-> TRUE, entries |-> entries]

\* The options user logic calls fulfill with. "U+00E9" is one character that
\* takes two bytes in UTF-8; the json values are an object and the number 0.
FulfillOptionSet ==
  [ status : {Undef, "201"},
    headers : { NoHeaders,
                HeadersObject(<< [key |-> "X-A", value |-> "1"] >>),
                HeadersObject(<< [key |-> "Content-Length", value |-> "99"],
                                 [key |-> "content-type", value |-> "text/plain"] >>) },
    contentType : {Undef, "text/html"},
    body : { Undefined, String(<< >>), String(<< "h", "U+00E9" >>), Buffer(<< 0, 1, 2 >>) },
    json : {Undef, "{a:1}", "0"},
    path : {Undef, "a.css", "missing"},
    response : {Undef, "sameConnection", "otherConnection"} ]

\* The APIResponse given as the response option: its status, headers, body
\* and fetch uid.
ResponseStatus == "404"
ResponseHeaders == << [key |-> "X-R", value |-> "r"] >>
ResponseBody == << 7, 8 >>
ResponseFetchUid == "uid1"
\* The file system: the files there are, with their bytes.
Files == {"a.css"}
FileBytes(path) == << 104, 105, 33, 10 >>

\* JSON.stringify of a json option, as characters.
stringify(json) ==
  IF json = "0" THEN << "0" >> ELSE << "{", "\"", "a", "\"", ":", "1", "}" >>
\* Truthiness of a json option: the number 0 is falsy.
TruthyJson(json) == json # Undef /\ json # "0"

\* Buffer.byteLength(text): the bytes of the text in UTF-8.
RECURSIVE byteLength(_)
byteLength(chars) ==
  IF chars = << >> THEN 0
  ELSE (IF Head(chars) = "U+00E9" THEN 2 ELSE 1) + byteLength(Tail(chars))

\* String(number), for a number that is not negative.
RECURSIVE NumberToString(_)
NumberToString(n) ==
  LET digit(d) == << "0", "1", "2", "3", "4", "5", "6", "7", "8", "9" >>[d + 1]
  IN IF n < 10 THEN digit(n) ELSE NumberToString(n \div 10) \o digit(n % 10)

\* A JavaScript object as its entries in key order: `key in object`, and
\* object[key] = value, which keeps the place of a key that is there already.
In(key, object) == \E i \in 1..Len(object) : object[i].key = key
ObjectSet(object, key, value) ==
  IF In(key, object)
  THEN [i \in 1..Len(object) |->
          IF object[i].key = key THEN [key |-> key, value |-> value] ELSE object[i]]
  ELSE Append(object, [key |-> key, value |-> value])

\* headersObjectToArray on such an object.
ObjectToHeadersArray(object) ==
  [i \in 1..Len(object) |-> [name |-> object[i].key, value |-> object[i].value]]

\* getMimeTypeForPath: the type of a known extension, or null.
getMimeTypeForPath(path) == IF path = "a.css" THEN "text/css" ELSE Undef

\* An assert that lets body and json through together.
assertBodyOrJsonNever(options) == TRUE

\* assert(options.body === undefined) under `options.json !== undefined`: true
\* when the assert does not throw.
assertBodyOrJson(options) == options.json = Undef \/ options.body = Undefined

\* The body after the json and response options: what json serializes to, else
\* the body option, else, for a response of another connection and no path,
\* the bytes that response.body() fetches (fetched says that it was called).
BodyOption(options) ==
  LET body == IF options.json # Undef THEN String(stringify(options.json)) ELSE options.body
      passthrough == options.response # Undef /\ body = Undefined /\ options.path = Undef
  IN [ fetchResponseUid |->
         IF passthrough /\ options.response = "sameConnection" THEN ResponseFetchUid ELSE Undef,
       fetched |-> passthrough /\ options.response = "otherConnection",
       body |-> IF passthrough /\ options.response = "otherConnection"
                THEN Buffer(ResponseBody) ELSE body ]

\* The if chain that settles body, isBase64 and length: a path wins over the
\* body, then a string, then a Buffer.
EncodedBody(options, body) ==
  IF Truthy(options.path)
  THEN [body |-> String(toStringBase64(FileBytes(options.path))), isBase64 |-> TRUE,
        length |-> Len(FileBytes(options.path))]
  ELSE IF isStringMessage(body)
  THEN [body |-> body, isBase64 |-> FALSE, length |-> byteLength(body.data)]
  ELSE IF body # Undefined
  THEN [body |-> String(toStringBase64(body.data)), isBase64 |-> TRUE, length |-> Len(body.data)]
  ELSE [body |-> body, isBase64 |-> FALSE, length |-> 0]

\* The headers option lower-cased into a fresh object.
RECURSIVE LowerCased(_)
LowerCased(entries) ==
  IF entries = << >> THEN << >>
  ELSE LET last == entries[Len(entries)]
       IN ObjectSet(LowerCased(SubSeq(entries, 1, Len(entries) - 1)),
                    toLowerCase(last.key), last.value)

\* A content-length that is set over the one the caller gave.
WithContentLengthAlways(headers, length) ==
  IF length # 0 THEN ObjectSet(headers, "content-length", NumberToString(length)) ELSE headers

\* if (length && !('content-length' in headers)) headers['content-length'] = String(length)
WithContentLength(headers, length) ==
  IF length # 0 /\ ~In("content-length", headers)
  THEN ObjectSet(headers, "content-length", NumberToString(length))
  ELSE headers

\* The headers of the command.
FulfillHeaders(options, headersOption, length) ==
  LET headers == LowerCased(headersOption.entries)
      typed ==
        IF Truthy(options.contentType)
        THEN ObjectSet(headers, "content-type", options.contentType)
        ELSE IF TruthyJson(options.json)
        THEN ObjectSet(headers, "content-type", "application/json")
        ELSE IF Truthy(options.path)
        THEN ObjectSet(headers, "content-type",
                       IF Truthy(getMimeTypeForPath(options.path))
                       THEN getMimeTypeForPath(options.path) ELSE "application/octet-stream")
        ELSE headers
  IN WithContentLength(typed, length)

\* The fulfill command of the channel, and its place when none is sent.
NoCommand ==
  [status |-> Undef, headers |-> << >>, body |-> Undefined, isBase64 |-> FALSE,
   fetchResponseUid |-> Undef]

InitFulfill ==
  /\ NoRoute /\ NoHandler /\ NoMulti /\ NoWebSocketRoute /\ NoRawHeaders /\ NoRequests
  /\ NoPrepared /\ NoApplies /\ NoMore
  /\ fulfills = << >>

\* Route._innerFulfill. fulfills records the options, the reads made in their
\* order (response.body(), readFile), the error thrown if any, and the command
\* sent if any. Reading a file that is not there throws.
_innerFulfill(options) ==
  /\ Len(fulfills) < MaxFulfills
  /\ fulfills' = Append(fulfills,
       IF ~assertBodyOrJson(options)
       THEN [options |-> options, io |-> << >>, sent |-> FALSE, command |-> NoCommand,
             error |-> "Can specify either body or json parameters"]
       ELSE
         LET given == BodyOption(options)
             io == (IF given.fetched THEN << "response.body" >> ELSE << >>)
                     \o (IF Truthy(options.path) THEN << "readFile" >> ELSE << >>)
         IN IF Truthy(options.path) /\ options.path \notin Files
            THEN [options |-> options, io |-> io, sent |-> FALSE, command |-> NoCommand,
                  error |-> "ENOENT"]
            ELSE
              LET encoded == EncodedBody(options, given.body)
                  statusOption ==
                    IF options.response # Undef /\ options.status = Undef
                    THEN ResponseStatus ELSE options.status
                  headersOption ==
                    IF options.response # Undef /\ ~options.headers.given
                    THEN HeadersObject(ResponseHeaders) ELSE options.headers
              IN [options |-> options, io |-> io, sent |-> TRUE, error |-> "none",
                  command |->
                    [status |-> IF Truthy(statusOption) THEN statusOption ELSE "200",
                     headers |-> ObjectToHeadersArray(
                                   FulfillHeaders(options, headersOption, encoded.length)),
                     body |-> encoded.body,
                     isBase64 |-> encoded.isBase64,
                     fetchResponseUid |-> given.fetchResponseUid]])
  /\ UNCHANGED << owner, scopeClosed, routeVars, handlerVars, multiVars, wsVars, rawVars,
                  requests, prepared, initializer, applies, moreVars >>

NextFulfill ==
  \/ \E options \in FulfillOptionSet : _innerFulfill(options)

SpecFulfill == InitFulfill /\ [][NextFulfill]_vars

\* ------------------------------------------------------- claims C23 to C25
\* C23: fulfill called with both body and json fails with the error of the
\* assert before anything is read: no file is read, no response body is
\* fetched and no fulfill command is sent.
C23_BodyAndJsonRejectedBeforeIO ==
  \A f \in 1..Len(fulfills) :
    (fulfills[f].options.body # Undefined /\ fulfills[f].options.json # Undef) =>
      /\ fulfills[f].error = "Can specify either body or json parameters"
      /\ fulfills[f].io = << >>
      /\ ~fulfills[f].sent

\* fulfill was called with a body, a json value and the path of a file.
C23_Witness ==
  \E f \in 1..Len(fulfills) :
    /\ fulfills[f].options.body = String(<< "h", "U+00E9" >>)
    /\ fulfills[f].options.json = "{a:1}" /\ fulfills[f].options.path = "a.css"
    /\ fulfills[f].error # "none"

\* The calls that sent a command, the content-length headers of a command,
\* and the content-length the caller supplied, in the headers option or, when
\* that is not given, in the headers of the response option.
Fulfilled == { f \in 1..Len(fulfills) : fulfills[f].sent }
ContentLengths(f) ==
  { i \in 1..Len(fulfills[f].command.headers) :
      fulfills[f].command.headers[i].name = "content-length" }
SuppliedHeaders(f) ==
  IF fulfills[f].options.headers.given THEN fulfills[f].options.headers.entries
  ELSE IF fulfills[f].options.response # Undef THEN ResponseHeaders
  ELSE << >>
SuppliedContentLengths(f) ==
  { i \in 1..Len(SuppliedHeaders(f)) :
      SuppliedHeaders(f)[i].key \in {"Content-Length", "content-length"} }
\* The number of bytes of the body a command carries.
BodyBytes(f) ==
  LET command == fulfills[f].command
  IN IF command.body = Undefined THEN 0
     ELSE IF command.isBase64 THEN Len(BufferFromBase64(command.body.data))
     ELSE Len(command.body.data)
            + Cardinality({ i \in 1..Len(command.body.data) : command.body.data[i] = "U+00E9" })
Decimal(n) == << "1", "2", "3", "4", "5", "6", "7", "8", "9", "10", "11", "12" >>[n]
LowerCaseNames == {"x-a", "x-r", "content-type", "content-length"}

\* C24, as stated: the fulfill command carries status 200 when no status is
\* given, header names lower-cased, and a content-length header equal to the
\* byte length of the body, unless the caller supplied a content-length, whose
\* value is then kept.
C24_StatusAndContentLength ==
  \A f \in Fulfilled :
    /\ fulfills[f].options.status = Undef => fulfills[f].command.status = "200"
    /\ \A i \in 1..Len(fulfills[f].command.headers) :
         fulfills[f].command.headers[i].name \in LowerCaseNames
    /\ Cardinality(ContentLengths(f)) = 1
    /\ \A i \in ContentLengths(f) :
         fulfills[f].command.headers[i].value =
           IF SuppliedContentLengths(f) # {}
           THEN SuppliedHeaders(f)[CHOOSE j \in SuppliedContentLengths(f) : TRUE].value
           ELSE Decimal(BodyBytes(f))

\* C24, amended: the command carries the status given; when none is given it
\* carries the status of the response option, and 200 when there is no
\* response option either. Header names are lower-cased. A content-length the
\* caller supplied is kept; otherwise the command carries a content-length
\* equal to the byte length of the body when that length is not zero, and no
\* content-length at all when the body is empty, is absent, or is left to the
\* fetch uid of the response.
C24_StatusAndContentLengthOfNonEmptyBody ==
  \A f \in Fulfilled :
    /\ fulfills[f].command.status =
         IF fulfills[f].options.status # Undef THEN fulfills[f].options.status
         ELSE IF fulfills[f].options.response # Undef THEN ResponseStatus
         ELSE "200"
    /\ \A i \in 1..Len(fulfills[f].command.headers) :
         fulfills[f].command.headers[i].name \in LowerCaseNames
    /\ Cardinality(ContentLengths(f)) =
         (IF SuppliedContentLengths(f) # {} \/ BodyBytes(f) > 0 THEN 1 ELSE 0)
    /\ \A i \in ContentLengths(f) :
         fulfills[f].command.headers[i].value =
           IF SuppliedContentLengths(f) # {}
           THEN SuppliedHeaders(f)[CHOOSE j \in SuppliedContentLengths(f) : TRUE].value
           ELSE Decimal(BodyBytes(f))

\* With no status and no response given, a text of three bytes was sent with
\* status 200 and content-length 3 next to the caller's x-a header.
C24_Witness ==
  \E f \in Fulfilled :
    /\ fulfills[f].options.status = Undef /\ fulfills[f].options.response = Undef
    /\ fulfills[f].options.body = String(<< "h", "U+00E9" >>)
    /\ fulfills[f].options.path = Undef
    /\ fulfills[f].command.status = "200"
    /\ fulfills[f].command.headers =
         << [name |-> "x-a", value |-> "1"], [name |-> "content-length", value |-> "3"] >>

\* The body and flag that the precedence json, body, path, response gives for
\* the options of a call.
BodyByPrecedence(options) ==
  IF options.json # Undef
  THEN [body |-> String(stringify(options.json)), isBase64 |-> FALSE]
  ELSE IF options.body # Undefined
  THEN IF isStringMessage(options.body)
       THEN [body |-> options.body, isBase64 |-> FALSE]
       ELSE [body |-> String(toStringBase64(options.body.data)), isBase64 |-> TRUE]
  ELSE IF options.path # Undef
  THEN [body |-> String(toStringBase64(FileBytes(options.path))), isBase64 |-> TRUE]
  ELSE IF options.response = "otherConnection"
  THEN [body |-> String(toStringBase64(ResponseBody)), isBase64 |-> TRUE]
  ELSE [body |-> Undefined, isBase64 |-> FALSE]

\* C25: the body of the fulfill command is chosen by the precedence json, then
\* body, then path, then the response: the first of them that is given
\* determines the body sent; a body given together with a path is sent as it
\* is.
C25_BodyPrecedence ==
  \A f \in Fulfilled :
    /\ fulfills[f].command.body = BodyByPrecedence(fulfills[f].options).body
    /\ fulfills[f].command.isBase64 = BodyByPrecedence(fulfills[f].options).isBase64

\* ------------------------------------------ prepareInterceptionPatterns
\* Handlers in one list, and calls of prepareInterceptionPatterns.
MaxPatternHandlers == 3
MaxPrepared == 1

\* URLMatch values: a string, a regular expression with its source and flags,
\* or a predicate.
UrlString(glob) == [type |-> "string", source |-> glob, flags |-> ""]
RegExp(source, flags) == [type |-> "regexp", source |-> source, flags |-> flags]
UrlPredicate(f) == [type |-> "function", source |-> f, flags |-> ""]
UrlSet ==
  { UrlString("**/*"), UrlString("/api"), RegExp("a+", "i"), RegExp("b", ""),
    UrlPredicate("f") }
isStringUrl(url) == url.type = "string"
isRegExp(url) == url.type = "regexp"

\* The entries of the patterns parameter; a property that is not there reads
\* as undefined.
GlobPattern(glob) == [glob |-> glob, regexSource |-> Undef, regexFlags |-> Undef]
RegexPattern(source, flags) ==
  [glob |-> Undef, regexSource |-> source, regexFlags |-> flags]
CatchAll == << GlobPattern("**/*") >>

RECURSIVE HandlerLists(_)
HandlerLists(n) ==
  IF n = 0 THEN { << >> }
  ELSE HandlerLists(n - 1)
         \cup { Append(handlers, url) : handlers \in HandlerLists(n - 1), url \in UrlSet }

\* The loops of the two prepareInterceptionPatterns: loop[1] is patterns,
\* loop[2] is all.
RECURSIVE RoutePatternsLoop(_, _, _)
RoutePatternsLoop(handlers, patterns, all) ==
  IF handlers = << >> THEN << patterns, all >>
  ELSE LET url == Head(handlers)
       IN IF isStringUrl(url)
          THEN RoutePatternsLoop(Tail(handlers),
                                 Append(patterns, GlobPattern(url.source)), all)
          ELSE IF isRegExp(url)
          THEN RoutePatternsLoop(Tail(handlers),
                                 Append(patterns, RegexPattern(url.source, url.flags)), all)
          ELSE RoutePatternsLoop(Tail(handlers), patterns, TRUE)

RECURSIVE WebSocketPatternsLoop(_, _, _)
WebSocketPatternsLoop(handlers, patterns, all) ==
  IF handlers = << >> THEN << patterns, all >>
  ELSE LET url == Head(handlers)
       IN IF isStringUrl(url)
          THEN WebSocketPatternsLoop(Tail(handlers),
                                     Append(patterns, GlobPattern(url.source)), all)
          ELSE IF isRegExp(url)
          THEN WebSocketPatternsLoop(Tail(handlers),
                                     Append(patterns, RegexPattern(url.source, url.flags)),
                                     all)
          ELSE WebSocketPatternsLoop(Tail(handlers), patterns, TRUE)

\* A preparation that leaves the handlers with a predicate out.
RouteHandler_prepareInterceptionPatternsSkipping(handlers) ==
  RoutePatternsLoop(handlers, << >>, FALSE)[1]

\* RouteHandler.prepareInterceptionPatterns
RouteHandler_prepareInterceptionPatterns(handlers) ==
  LET loop == RoutePatternsLoop(handlers, << >>, FALSE)
  IN IF loop[2] THEN CatchAll ELSE loop[1]

\* WebSocketRouteHandler.prepareInterceptionPatterns
WebSocketRouteHandler_prepareInterceptionPatterns(handlers) ==
  LET loop == WebSocketPatternsLoop(handlers, << >>, FALSE)
  IN IF loop[2] THEN CatchAll ELSE loop[1]

InitPrepared ==
  /\ NoRoute /\ NoHandler /\ NoMulti /\ NoWebSocketRoute /\ NoRawHeaders
  /\ NoRequests /\ NoFulfills /\ NoApplies /\ NoMore
  /\ prepared = << >>

PrepareRoutes(handlers) ==
  /\ Len(prepared) < MaxPrepared
  /\ prepared' = Append(prepared,
       [of |-> "RouteHandler", handlers |-> handlers,
        patterns |-> RouteHandler_prepareInterceptionPatterns(handlers)])
  /\ UNCHANGED << owner, scopeClosed, routeVars, handlerVars, multiVars, wsVars, rawVars,
                  requests, fulfills, initializer, applies, moreVars >>

PrepareWebSocketRoutes(handlers) ==
  /\ Len(prepared) < MaxPrepared
  /\ prepared' = Append(prepared,
       [of |-> "WebSocketRouteHandler", handlers |-> handlers,
        patterns |-> WebSocketRouteHandler_prepareInterceptionPatterns(handlers)])
  /\ UNCHANGED << owner, scopeClosed, routeVars, handlerVars, multiVars, wsVars, rawVars,
                  requests, fulfills, initializer, applies, moreVars >>

NextPrepared ==
  \/ \E handlers \in HandlerLists(MaxPatternHandlers) : PrepareRoutes(handlers)
  \/ \E handlers \in HandlerLists(MaxPatternHandlers) : PrepareWebSocketRoutes(handlers)

SpecPrepared == InitPrepared /\ [][NextPrepared]_vars

\* ------------------------------------------------------------- claim C26
UsesPredicate(handlers) ==
  \E i \in 1..Len(handlers) : handlers[i].type = "function"

\* C26: the patterns registered for a list of handlers are the single
\* catch-all entry {glob: '**/*'} when at least one handler uses a predicate,
\* and otherwise, and only then, one entry per handler in registration order,
\* {glob} for a string and {regexSource, regexFlags} for a regular expression;
\* RouteHandler and WebSocketRouteHandler give the same patterns.
C26_PatternsOrCatchAll ==
  \A p \in 1..Len(prepared) :
    LET handlers == prepared[p].handlers
        patterns == prepared[p].patterns
    IN /\ UsesPredicate(handlers) =>
            /\ Len(patterns) = 1
            /\ patterns[1].glob = "**/*"
            /\ patterns[1].regexSource = Undef /\ patterns[1].regexFlags = Undef
       /\ ~UsesPredicate(handlers) =>
            /\ Len(patterns) = Len(handlers)
            /\ \A i \in 1..Len(handlers) :
                 /\ handlers[i].type = "string" =>
                      /\ patterns[i].glob = handlers[i].source
                      /\ patterns[i].regexSource = Undef
                      /\ patterns[i].regexFlags = Undef
                 /\ handlers[i].type = "regexp" =>
                      /\ patterns[i].glob = Undef
                      /\ patterns[i].regexSource = handlers[i].source
                      /\ patterns[i].regexFlags = handlers[i].flags
       /\ RouteHandler_prepareInterceptionPatterns(handlers)
            = WebSocketRouteHandler_prepareInterceptionPatterns(handlers)

\* A list with a string, a regular expression and a predicate has been
\* prepared, for routes or for WebSocket routes.
C26_Witness ==
  \E p \in 1..Len(prepared) :
    /\ Len(prepared[p].handlers) = 3
    /\ prepared[p].handlers[1].type = "regexp"
    /\ prepared[p].handlers[2].type = "function"
    /\ prepared[p].handlers[3].type = "string"
    /\ prepared[p].patterns = CatchAll

\* ------------------------------------------------------- claims C27 to C29
\* C27: under any interleaving of concurrent invocations of one RouteHandler,
\* the active-invocation set holds exactly the invocations that have entered
\* handle and not yet exited, whether they exit by success or by failure; it is
\* empty whenever no invocation is running.
C27_ActiveInvocationsAreTheRunningOnes ==
  /\ activeInvocations[TheHandler] = Running
  /\ Running = {} => activeInvocations[TheHandler] = {}

\* Three invocations overlapped: one has raised, one has returned, and the
\* third alone is still in the set.
C27_Witness ==
  /\ Cardinality(Started) = 3
  /\ \E i \in Started : invs[i].pc = "raised"
  /\ \E i \in Started : invs[i].pc = "returned" /\ invs[i].cb = "returned"
  /\ \E i \in Started : invs[i].pc = "awaiting" /\ activeInvocations[TheHandler] = {i}
  /\ \E i, j \in Started : i < j /\ invs[i].pc = "awaiting" /\ invs[j].pc # "awaiting"

\* The invocations of TheHandler that have completed.
Completed == Started \ Running

\* C28, as stated: willExpire() is true exactly once the count of completed
\* invocations plus one reaches the budget; invocations that have started but
\* not completed do not change it; with the default budget it is never true.
C28_ExpiresByCompletedCount ==
  /\ willExpire(TheHandler) <=> Cardinality(Completed) + 1 >= times[TheHandler]
  /\ times[TheHandler] = MAX_SAFE_INTEGER => ~willExpire(TheHandler)

\* C28, amended: willExpire() is true exactly once the count of started
\* invocations plus one reaches the budget, whether or not those invocations
\* have completed; with the default budget it is never true.
C28_ExpiresByStartedCount ==
  /\ handledCount[TheHandler] = Cardinality(Started)
  /\ willExpire(TheHandler) <=> Cardinality(Started) + 1 >= times[TheHandler]
  /\ times[TheHandler] = MAX_SAFE_INTEGER => ~willExpire(TheHandler)

\* With a budget of 2, one invocation has started and not completed, and
\* willExpire() is true already.
C28_Witness ==
  /\ times[TheHandler] = 2
  /\ Cardinality(Started) = 1 /\ Completed = {}
  /\ willExpire(TheHandler)

\* The resolving calls on the Route that threw inside the try block of
\* _handleRoute, and the invocations of handle that have exited.
FailedInHandleRoute ==
  { c \in CallIds : calls[c].result \in {"AssertionError", "TypeError", "Rejected"} }
RaisedInvocations == { i \in InvIds : invs[i].pc = "raised" }
ReturnedInvocations == { i \in InvIds : invs[i].pc = "returned" }

\* C29, as stated: the Route's threw flag is set if the enclosing handler
\* invocation raised, whatever raised inside it, and it is never set for an
\* invocation that did not raise.
C29_ThrewIffInvocationRaised ==
  /\ RaisedInvocations # {} => didThrow
  /\ (InvIds # {} /\ ReturnedInvocations = InvIds) => ~didThrow

\* C29, amended: the Route's threw flag is set exactly when a resolving call on
\* the Route has thrown inside _handleRoute, after the already-handled check;
\* an invocation raising an error of the user callback's own does not set it,
\* and it stays set when the invocation goes on to return.
C29_ThrewIffResolvingCallFailed ==
  didThrow <=> FailedInHandleRoute # {}

\* A resolving call has thrown inside _handleRoute and the flag is set,
\* although every invocation of the Route returned.
C29_Witness ==
  /\ InvIds # {} /\ ReturnedInvocations = InvIds
  /\ FailedInHandleRoute # {}
  /\ didThrow

\* ------------------------------------------- Request._applyFallbackOverrides
\* Calls of _applyFallbackOverrides on one Request.
MaxApplies == 2

\* The overrides a call is given: each field is left out, empty or set; the
\* post body is a text, bytes or another serializable value.
PartialSet ==
  [ url : {Undef, "", "u1", "u2"}, method : {Undef, "", "POST"}, headers : {Undef, "h1"},
    postData : {Undef, ""} \cup StringPostData \cup BufferPostData \cup JsonPostData ]

\* The values captured for the request when it was created.
InitializerSet ==
  { [url |-> "u0", method |-> "GET", headers |-> "h0", postData |-> Undef],
    [url |-> "u0", method |-> "PUT", headers |-> "h0", postData |-> "B0"] }

InitOverrides ==
  /\ NoRoute /\ NoHandler /\ NoMulti /\ NoWebSocketRoute /\ NoRawHeaders
  /\ NoRequests /\ NoFulfills /\ NoPrepared /\ NoMore
  /\ initializer \in InitializerSet
  /\ applies = << >>

\* A call of Request._applyFallbackOverrides.
ApplyFallbackOverrides(overrides) ==
  /\ Len(applies) < MaxApplies
  /\ fallbackOverrides' = _applyFallbackOverrides(fallbackOverrides, overrides)
  /\ applies' = Append(applies, [overrides |-> overrides, before |-> fallbackOverrides,
                                 after |-> fallbackOverrides', captured |-> initializer])
  /\ UNCHANGED << owner, scopeClosed, handlingPromise, promises, didThrow, sent, calls,
                  handlerVars, multiVars, wsVars, rawVars, requests, fulfills, prepared,
                  initializer, moreVars >>

NextOverrides ==
  \/ \E overrides \in PartialSet : ApplyFallbackOverrides(overrides)

SpecOverrides == InitOverrides /\ [][NextOverrides]_vars

\* ------------------------------------------------------------- claim C30
\* C30: a call of _applyFallbackOverrides overwrites in the overlay only the
\* fields its overrides provide: a url, method or headers that is given and
\* not empty replaces that field, a post body that is given replaces the post
\* body; every field that is not provided keeps its overlay value, and the
\* values captured for the request stay as they were.
C30_OnlyProvidedFieldsOverwritten ==
  /\ \A a \in 1..Len(applies) :
       LET o == applies[a].overrides
           before == applies[a].before
           after == applies[a].after
       IN /\ o.url = Undef => after.url = before.url
          /\ o.method = Undef => after.method = before.method
          /\ o.headers = Undef => after.headers = before.headers
          /\ o.postData = Undef => after.postDataBuffer = before.postDataBuffer
          /\ o.url \notin {Undef, ""} => after.url = o.url
          /\ o.method \notin {Undef, ""} => after.method = o.method
          /\ o.headers # Undef => after.headers = o.headers
          /\ o.postData # Undef => after.postDataBuffer # Undef
          /\ o.postData \in BufferPostData => after.postDataBuffer = o.postData
          /\ applies[a].captured = initializer
          /\ after = IF a = Len(applies) THEN fallbackOverrides ELSE applies[a + 1].before
  /\ initializer \in InitializerSet

\* A second call gives only a method: the url, headers and post body that the
\* first call put into the overlay are still there.
C30_Witness ==
  /\ Len(applies) = 2
  /\ applies[1].overrides = [url |-> "u1", method |-> Undef, headers |-> "h1",
                             postData |-> "s1"]
  /\ applies[2].overrides = [url |-> Undef, method |-> "POST", headers |-> Undef,
                             postData |-> Undef]
  /\ fallbackOverrides.url = "u1" /\ fallbackOverrides.method = "POST"
  /\ fallbackOverrides.headers = "h1" /\ fallbackOverrides.postDataBuffer # Undef

\* ------------------------------------------------- Request's effective values
\* The headers objects and header lists behind the names "h1" and "h0": h1 is
\* what user logic gives as headers, with two names that differ in letter case
\* only and one value that is undefined; h0 is the list captured for the
\* request.
HeadersObjectOf(h) ==
  IF h = "h1"
  THEN << [key |-> "X-A", value |-> "v1"], [key |-> "c", value |-> Undef],
          [key |-> "x-a", value |-> "v2"], [key |-> "b", value |-> "v1"] >>
  ELSE << >>
HeadersArrayOf(h) ==
  IF h = "h0" THEN << [name |-> "x-a", value |-> "v0"], [name |-> "b", value |-> "v2"] >>
  ELSE << >>

\* Buffer.toString('utf-8') on the post bodies of the model.
toStringUtf8(buffer) ==
  CASE buffer = BufferFromUtf8("") -> ""
    [] buffer = BufferFromUtf8("s1") -> "s1"
    [] buffer = BufferFromUtf8(JSONstringify("j1")) -> JSONstringify("j1")
    [] buffer = "B1" -> "text(B1)"
    [] buffer = "B0" -> "text(B0)"

\* RawHeaders._fromHeadersObjectLossy, up to the constructor: the entries of
\* the object whose value is not undefined, as a header list.
RECURSIVE _fromHeadersObjectLossy(_)
_fromHeadersObjectLossy(object) ==
  IF object = << >> THEN << >>
  ELSE LET rest == _fromHeadersObjectLossy(Tail(object))
       IN IF Head(object).value # Undef
          THEN << [name |-> Head(object).key, value |-> Head(object).value] >> \o rest
          ELSE rest

\* RawHeaders.headers on a RawHeaders with the given _headersMap.
RawHeaders_headers(map) ==
  [i \in 1..Len(map) |->
     [key |-> map[i].key,
      value |-> join(map[i].values,
                     IF toLowerCase(map[i].key) = "set-cookie" THEN "\n" ELSE ", ")]]

\* A headers() that never looks at the overlay.
Request_headersProvisional ==
  RawHeaders_headers(RawHeaders(HeadersArrayOf(initializer.headers)))

\* Request.url, method, postData, postDataBuffer and headers
Request_url ==
  IF Truthy(fallbackOverrides.url) THEN fallbackOverrides.url ELSE initializer.url
Request_method ==
  IF Truthy(fallbackOverrides.method) THEN fallbackOverrides.method ELSE initializer.method
Request_postDataBuffer ==
  IF Truthy(fallbackOverrides.postDataBuffer) THEN fallbackOverrides.postDataBuffer
  ELSE IF Truthy(initializer.postData) THEN initializer.postData
  ELSE Null
Request_postData ==
  LET buffer == IF Truthy(fallbackOverrides.postDataBuffer)
                THEN fallbackOverrides.postDataBuffer ELSE initializer.postData
  IN IF buffer = Undef THEN Null
     ELSE IF toStringUtf8(buffer) = "" THEN Null ELSE toStringUtf8(buffer)
Request_headers ==
  IF Truthy(fallbackOverrides.headers)
  THEN RawHeaders_headers(RawHeaders(
         _fromHeadersObjectLossy(HeadersObjectOf(fallbackOverrides.headers))))
  ELSE RawHeaders_headers(RawHeaders(HeadersArrayOf(initializer.headers)))

\* ------------------------------------------------------------- claim C31
\* The captured header list as a headers object.
CapturedHeaders ==
  [i \in 1..Len(HeadersArrayOf(initializer.headers)) |->
     [key |-> HeadersArrayOf(initializer.headers)[i].name,
      value |-> HeadersArrayOf(initializer.headers)[i].value]]

\* C31, as stated: after any sequence of override applications the effective
\* url, method, headers and post body each equal the overlay value if the
\* field is present in the overlay, and the captured value otherwise.
C31_EffectiveIsOverlayElseCaptured ==
  /\ Request_url = IF fallbackOverrides.url # Undef THEN fallbackOverrides.url
                   ELSE initializer.url
  /\ Request_method = IF fallbackOverrides.method # Undef THEN fallbackOverrides.method
                      ELSE initializer.method
  /\ Request_headers = IF fallbackOverrides.headers # Undef
                       THEN HeadersObjectOf(fallbackOverrides.headers)
                       ELSE CapturedHeaders
  /\ Request_postDataBuffer =
       IF fallbackOverrides.postDataBuffer # Undef THEN fallbackOverrides.postDataBuffer
       ELSE IF initializer.postData # Undef THEN initializer.postData ELSE Null

\* C31, amended: the effective url, method and post body are the overlay value
\* if the field is present in the overlay and the captured value otherwise (the
\* post body as text is null when the body is empty or absent); the effective
\* headers are those of the overlay if it holds headers, else the captured
\* ones, in both cases with the names lower-cased, the values of names that
\* differ in letter case only joined, and undefined values left out.
C31_EffectiveWithNormalisedHeaders ==
  /\ Request_url = IF fallbackOverrides.url # Undef THEN fallbackOverrides.url
                   ELSE initializer.url
  /\ Request_method = IF fallbackOverrides.method # Undef THEN fallbackOverrides.method
                      ELSE initializer.method
  /\ Request_postDataBuffer =
       IF fallbackOverrides.postDataBuffer # Undef THEN fallbackOverrides.postDataBuffer
       ELSE IF initializer.postData # Undef THEN initializer.postData ELSE Null
  /\ Request_postData # ""
  /\ Request_postData = Null <=>
       \/ Request_postDataBuffer = Null
       \/ Request_postDataBuffer = BufferFromUtf8("")
  /\ Request_headers =
       IF fallbackOverrides.headers = "h1"
       THEN << [key |-> "x-a", value |-> "v1, v2"], [key |-> "b", value |-> "v1"] >>
       ELSE << [key |-> "x-a", value |-> "v0"], [key |-> "b", value |-> "v2"] >>

\* Two calls have put a url and headers into the overlay and no method: the
\* url and headers come from the overlay, the method from the captured values.
C31_Witness ==
  /\ Len(applies) = 2
  /\ fallbackOverrides.url = "u2" /\ fallbackOverrides.headers = "h1"
  /\ fallbackOverrides.method = Undef
  /\ Request_url = "u2" /\ Request_method = initializer.method
  /\ Request_headers # CapturedHeaders

\* ----------------------------------------------------- Request._actualHeaders
\* Calls of _actualHeaders on one Request.
MaxHeaderCalls == 3

\* The headers the channel answers rawRequestHeaders with.
ChannelHeaders == << [name |-> "X-A", value |-> "v0"], [name |-> "Cookie", value |-> "c"] >>

\* What a call of _actualHeaders has got: nothing yet, a RawHeaders made of the
\* given header list, or the error of the command.
NoResult == [kind |-> "none", headersArray |-> << >>]
ResultRawHeaders(kind, headers) == [kind |-> kind, headersArray |-> headers]

InitActualHeaders ==
  /\ NoRoute /\ NoHandler /\ NoMulti /\ NoWebSocketRoute /\ NoRawHeaders
  /\ NoRequests /\ NoFulfills /\ NoPrepared /\ NoWsReplies /\ NoTele
  /\ initializer \in InitializerSet
  /\ applies = << >>
  /\ actualHeadersPromise = "none"
  /\ rawSent = << >>
  /\ headerCalls = << >>

notActualVars == << owner, scopeClosed, routeVars, handlerVars, multiVars, wsVars, rawVars,
                    requests, fulfills, prepared, initializer, applies, wsReplies, teleVars >>

\* An _actualHeaders that fetches whenever no answer has arrived yet.
_actualHeadersFetchingWhilePending ==
  /\ Len(headerCalls) < MaxHeaderCalls
  /\ IF Truthy(fallbackOverrides.headers)
     THEN /\ headerCalls' = Append(headerCalls,
               [overlay |-> fallbackOverrides.headers, found |-> actualHeadersPromise,
                sent |-> FALSE, pc |-> "returned",
                result |-> ResultRawHeaders("synthesized",
                             _fromHeadersObjectLossy(HeadersObjectOf(fallbackOverrides.headers)))])
          /\ UNCHANGED << actualHeadersPromise, rawSent >>
     ELSE IF actualHeadersPromise \in {"none", "pending"}
     THEN /\ actualHeadersPromise' = "pending"
          /\ rawSent' = Append(rawSent, "rawRequestHeaders")
          /\ headerCalls' = Append(headerCalls,
               [overlay |-> Undef, found |-> actualHeadersPromise,
                sent |-> TRUE, pc |-> "awaiting", result |-> NoResult])
     ELSE /\ headerCalls' = Append(headerCalls,
               [overlay |-> Undef, found |-> actualHeadersPromise,
                sent |-> FALSE, pc |-> "awaiting", result |-> NoResult])
          /\ UNCHANGED << actualHeadersPromise, rawSent >>
  /\ UNCHANGED notActualVars

\* Request._actualHeaders up to its await: headers of the overlay are returned
\* synthesized; otherwise the promise is made, and the command sent, only when
\* there is no promise yet.
_actualHeaders ==
  /\ Len(headerCalls) < MaxHeaderCalls
  /\ IF Truthy(fallbackOverrides.headers)
     THEN /\ headerCalls' = Append(headerCalls,
               [overlay |-> fallbackOverrides.headers, found |-> actualHeadersPromise,
                sent |-> FALSE, pc |-> "returned",
                result |-> ResultRawHeaders("synthesized",
                             _fromHeadersObjectLossy(HeadersObjectOf(fallbackOverrides.headers)))])
          /\ UNCHANGED << actualHeadersPromise, rawSent >>
     ELSE IF actualHeadersPromise = "none"
     THEN /\ actualHeadersPromise' = "pending"
          /\ rawSent' = Append(rawSent, "rawRequestHeaders")
          /\ headerCalls' = Append(headerCalls,
               [overlay |-> Undef, found |-> actualHeadersPromise,
                sent |-> TRUE, pc |-> "awaiting", result |-> NoResult])
     ELSE /\ headerCalls' = Append(headerCalls,
               [overlay |-> Undef, found |-> actualHeadersPromise,
                sent |-> FALSE, pc |-> "awaiting", result |-> NoResult])
          /\ UNCHANGED << actualHeadersPromise, rawSent >>
  /\ UNCHANGED notActualVars

\* The channel answers rawRequestHeaders, or rejects it: the promise settles.
RawRequestHeadersSettles(how) ==
  /\ actualHeadersPromise = "pending"
  /\ actualHeadersPromise' = how
  /\ UNCHANGED << rawSent, headerCalls, notActualVars >>

\* `return await this._actualHeadersPromise` of call c once the promise has
\* settled.
ActualHeadersReturns(c) ==
  /\ c \in 1..Len(headerCalls) /\ headerCalls[c].pc = "awaiting"
  /\ actualHeadersPromise \in {"fulfilled", "rejected"}
  /\ headerCalls' =
       [headerCalls EXCEPT ![c].pc = IF actualHeadersPromise = "fulfilled" THEN "returned"
                                     ELSE "raised",
                           ![c].result = IF actualHeadersPromise = "fulfilled"
                                         THEN ResultRawHeaders("channel", ChannelHeaders)
                                         ELSE ResultRawHeaders("error", << >>)]
  /\ UNCHANGED << actualHeadersPromise, rawSent, notActualVars >>

\* User logic puts headers into the overlay.
OverlayHeaders == { [NoOverrides EXCEPT !.headers = "h1"] }

NextActualHeaders ==
  \/ _actualHeaders
  \/ \E how \in {"fulfilled", "rejected"} : RawRequestHeadersSettles(how)
  \/ \E c \in 1..MaxHeaderCalls : ActualHeadersReturns(c)
  \/ \E overrides \in OverlayHeaders : ApplyFallbackOverrides(overrides)

SpecActualHeaders == InitActualHeaders /\ [][NextActualHeaders]_vars

\* ------------------------------------------------------------- claim C32
\* C32: over any number of calls of actualHeaders on one Request, calls made
\* while an earlier fetch is pending included, the raw-headers command is sent
\* at most once; a call made while the overlay holds headers sends no command
\* and returns at once the headers synthesized from the overlay.
C32_FetchedAtMostOnce ==
  /\ Len(rawSent) <= 1
  /\ Cardinality({ c \in 1..Len(headerCalls) : headerCalls[c].sent }) = Len(rawSent)
  /\ \A c \in 1..Len(headerCalls) :
       /\ headerCalls[c].overlay # Undef =>
            /\ ~headerCalls[c].sent
            /\ headerCalls[c].pc = "returned"
            /\ headerCalls[c].result.kind = "synthesized"
            /\ headerCalls[c].result.headersArray =
                 << [name |-> "X-A", value |-> "v1"], [name |-> "x-a", value |-> "v2"],
                    [name |-> "b", value |-> "v1"] >>
       /\ headerCalls[c].overlay = Undef /\ headerCalls[c].pc = "returned" =>
            /\ headerCalls[c].result.kind = "channel"
            /\ headerCalls[c].result.headersArray = ChannelHeaders

\* Two calls were made while the fetch of the first was pending and both got
\* the channel's headers from the one command; a third, made after headers
\* were put into the overlay, got the synthesized ones.
C32_Witness ==
  /\ Len(headerCalls) = 3 /\ Len(rawSent) = 1
  /\ headerCalls[1].sent /\ headerCalls[1].result.kind = "channel"
  /\ ~headerCalls[2].sent /\ headerCalls[2].found = "pending"
  /\ headerCalls[2].result.kind = "channel"
  /\ headerCalls[3].result.kind = "synthesized"
  /\ actualHeadersPromise = "fulfilled"

\* ------------------------------------------------------------- claim C33
\* The content-type values a command carries, and those the caller supplied
\* through the headers option.
ContentTypes(f) ==
  { fulfills[f].command.headers[i].value :
      i \in { j \in 1..Len(fulfills[f].command.headers) :
                fulfills[f].command.headers[j].name = "content-type" } }
SuppliedContentTypes(f) ==
  { SuppliedHeaders(f)[i].value :
      i \in { j \in 1..Len(SuppliedHeaders(f)) :
                SuppliedHeaders(f)[j].key \in {"Content-Type", "content-type"} } }

\* C33: fulfill with a json option sets content-type to application/json only
\* if content-type is otherwise unset: a content-type supplied through the
\* contentType option is kept, and so is one supplied through the headers
\* option.
C33_JsonKeepsSuppliedContentType ==
  \A f \in Fulfilled :
    fulfills[f].options.json # Undef =>
      /\ fulfills[f].options.contentType # Undef =>
           ContentTypes(f) = {fulfills[f].options.contentType}
      /\ (fulfills[f].options.contentType = Undef /\ SuppliedContentTypes(f) # {}) =>
           ContentTypes(f) = SuppliedContentTypes(f)

\* --------------------------------------- answers to the WebSocketRoute's commands
InitWsReplies ==
  /\ NoRoute /\ NoHandler /\ NoMulti /\ NoRawHeaders
  /\ NoRequests /\ NoFulfills /\ NoPrepared /\ NoApplies /\ NoActual /\ NoTele
  /\ connected = FALSE
  /\ onPageMessage = 0 /\ onPageClose = 0 /\ onServerMessage = 0 /\ onServerClose = 0
  /\ wsSent = << >> /\ wsEvents = << >> /\ wsCalls = << >> /\ wsHandle = "idle"
  /\ wsReplies = {}

\* The commands of wsSent the channel has not answered yet.
Unanswered ==
  { k \in 1..Len(wsSent) : \A r \in wsReplies : r.command # k }

\* A rejection that reaches whoever awaits the command: the caller of close,
\* the handler behind _afterHandle, or nobody's catch at all.
WsCatchNothing(command) ==
  IF command.by = "afterHandle" THEN "handler"
  ELSE IF command.cmd \in {"closePage", "closeServer"} /\ command.by = "call" THEN "caller"
  ELSE "unhandled"

\* `.catch(() => {})`, which every command of the WebSocketRoute is issued
\* with: the rejection reaches nobody.
WsCatch(command) == "nobody"

\* The channel answers command k.
WsChannelResolves(k) ==
  /\ k \in Unanswered
  /\ wsReplies' = wsReplies \cup {[command |-> k, answer |-> "ok", raised |-> "nobody"]}
  /\ UNCHANGED << owner, scopeClosed, routeVars, handlerVars, multiVars, wsVars, rawVars,
                  requests, fulfills, prepared, initializer, applies, actualVars, teleVars >>

\* The channel rejects command k, for instance because the leg is closed. An
\* error that reaches the handler makes handle raise.
WsChannelRejects(k) ==
  /\ k \in Unanswered
  /\ wsReplies' = wsReplies \cup
       {[command |-> k, answer |-> "rejected", raised |-> WsCatch(wsSent[k])]}
  /\ wsHandle' = IF WsCatch(wsSent[k]) = "handler" THEN "raised" ELSE wsHandle
  /\ UNCHANGED << owner, scopeClosed, routeVars, handlerVars, multiVars, connected,
                  onPageMessage, onPageClose, onServerMessage, onServerClose, wsSent,
                  wsEvents, wsCalls, rawVars, requests, fulfills, prepared, initializer,
                  applies, actualVars, teleVars >>

\* The messages user logic sends here: a text and bytes.
SentMessages == { String(<< "h", "i" >>), Buffer(<< 255 >>) }

NextWsReplies ==
  \/ \E c \in CloseSet : closePage(c)
  \/ \E m \in SentMessages : send(m)
  \/ \E m \in SentMessages : connected /\ server_send(m)
  \/ \E o \in CloseOptions : close(o)
  \/ \E o \in CloseOptions : connected /\ server_close(o)
  \/ connectToServer
  \/ handleWebSocketRoute
  \/ WsCallbackReturns
  \/ WsCallbackThrows
  \/ _afterHandle
  \/ \E k \in 1..(MaxWsCalls + MaxWsEvents + 1) : WsChannelResolves(k)
  \/ \E k \in 1..(MaxWsCalls + MaxWsEvents + 1) : WsChannelRejects(k)

SpecWsReplies == InitWsReplies /\ [][NextWsReplies]_vars

\* ------------------------------------------------------------- claim C34
BestEffort == {"closePage", "closeServer", "sendToPage", "sendToServer", "ensureOpened"}
Rejected == { r \in wsReplies : r.answer = "rejected" }

\* C34: close and send on either leg, and the ensureOpened of _afterHandle, are
\* best-effort: when the channel rejects the command the error is discarded;
\* it reaches neither the caller nor the handler, so handle raises only when
\* the callback threw, before _afterHandle.
C34_RejectionsAreDiscarded ==
  /\ \A r \in Rejected :
       wsSent[r.command].cmd \in BestEffort => r.raised = "nobody"
  /\ wsHandle = "raised" =>
       \A k \in 1..Len(wsSent) : wsSent[k].by # "afterHandle"
  /\ \A c \in 1..Len(wsCalls) :
       wsCalls[c].call \in {"send", "server.send", "close", "server.close"} =>
         wsCalls[c].result = "ok"

\* The page leg was closed, close() was called on it and the channel rejected
\* its closePage; ensureOpened was rejected as well, and handle is done.
C34_Witness ==
  /\ \E e \in 1..Len(wsEvents) : wsEvents[e].event = "closePage"
  /\ \E r \in Rejected : wsSent[r.command].cmd = "closePage" /\ wsSent[r.command].by = "call"
  /\ \E r \in Rejected : wsSent[r.command].cmd = "ensureOpened"
  /\ wsHandle = "done"

\* ------------------------------------------------------------- claim C35
\* C35: the connected flag is monotonic: it is false until the first
\* connectToServer call, that call sets it, and no operation or event, a close
\* event on either leg included, sets it back to false.
C35_ConnectedIsMonotonic ==
  [][ /\ connected => connected'
      /\ (~connected /\ connected') =>
           /\ Len(wsCalls') = Len(wsCalls) + 1
           /\ wsCalls'[Len(wsCalls')].call = "connectToServer"
           /\ wsCalls'[Len(wsCalls')].result = "ok"
      /\ (Len(wsCalls') = Len(wsCalls) + 1
            /\ wsCalls'[Len(wsCalls')].call = "connectToServer") => connected' ]_vars

\* After connectToServer both legs have had a close event, and the route is
\* still connected.
C35_Witness ==
  /\ connected
  /\ \E e \in 1..Len(wsEvents) : wsEvents[e].event = "closePage"
  /\ \E e \in 1..Len(wsEvents) : wsEvents[e].event = "closeServer"
  /\ \E c \in 1..Len(wsCalls) : wsCalls[c].call = "connectToServer"

\* ------------------------------------------- the server leg, once obtained
\* User logic gets the server leg as the value of connectToServer, so it calls
\* the server leg on a connected route only.
NextWebSocketLegs ==
  \/ \E f \in ForeignFrames : messageFromPage(f, 0)
  \/ \E k \in Echoes("sendToPage") : messageFromPage(wsSent[k].params, k)
  \/ \E f \in ForeignFrames : messageFromServer(f, 0)
  \/ \E k \in Echoes("sendToServer") : messageFromServer(wsSent[k].params, k)
  \/ \E c \in CloseSet : closePage(c)
  \/ \E c \in CloseSet : closeServer(c)
  \/ onMessage
  \/ onClose
  \/ connected /\ server_onMessage
  \/ connected /\ server_onClose
  \/ \E m \in MessageSet : send(m)
  \/ \E m \in MessageSet : connected /\ server_send(m)
  \/ \E o \in CloseOptions : close(o)
  \/ \E o \in CloseOptions : connected /\ server_close(o)
  \/ connectToServer
  \/ connected /\ server_connectToServer
  \/ handleWebSocketRoute
  \/ WsCallbackReturns
  \/ WsCallbackThrows
  \/ _afterHandle

SpecWebSocketLegs == InitWebSocketRoute /\ [][NextWebSocketLegs]_vars

\* ------------------------------------------------------------- claim C36
\* C36: no sendToServer command is issued on a route on which connectToServer
\* has not been called; a message from the page that arrives while the route
\* is not connected and no page-side onMessage callback is installed is
\* dropped: nothing is sent for it, then or later, a listener's sendToServer
\* being issued only in the step of the event it forwards.
C36_NoSendToServerBeforeConnect ==
  [][ /\ \A k \in (Len(wsSent) + 1)..Len(wsSent') :
           wsSent'[k].cmd = "sendToServer" =>
             /\ connected
             /\ wsSent'[k].by = "listener" =>
                  /\ Len(wsEvents') = Len(wsEvents) + 1
                  /\ wsEvents'[Len(wsEvents')].event = "messageFromPage"
                  /\ wsEvents'[Len(wsEvents')].cmd = k
                  /\ wsEvents'[Len(wsEvents')].params = wsSent'[k].params
      /\ ( /\ Len(wsEvents') = Len(wsEvents) + 1
           /\ wsEvents'[Len(wsEvents')].event = "messageFromPage"
           /\ ~connected /\ onPageMessage = 0 ) =>
             /\ wsSent' = wsSent
             /\ wsEvents'[Len(wsEvents')].cb = 0 /\ wsEvents'[Len(wsEvents')].cmd = 0 ]_vars

\* A message from the page was dropped, the route was connected afterwards,
\* and no sendToServer command has been issued.
C36_Witness ==
  /\ \E e \in 1..Len(wsEvents) :
       wsEvents[e].event = "messageFromPage" /\ wsEvents[e].cb = 0 /\ wsEvents[e].cmd = 0
  /\ connected
  /\ \E k \in 1..Len(wsSent) : wsSent[k].cmd = "connect"
  /\ \A k \in 1..Len(wsSent) : wsSent[k].cmd # "sendToServer"

\* ----------------------------------------------- the handler, run to the end
\* The handler with the default budget. What the program does on its own is
\* done in the end: a settled Promise.all is taken up by the code that awaits
\* it, in _handleImpl and in stop. What user logic does, resolving a Route or
\* finishing a callback, is left to user logic.
InitHandlerDefault ==
  /\ InitHandler
  /\ times = [h \in Handlers |-> MAX_SAFE_INTEGER]

SpecHandlerFair ==
  /\ InitHandlerDefault /\ [][NextHandler]_vars
  /\ \A i \in 1..MaxInvocations :
       WF_vars(HandleImplReturns(i)) /\ WF_vars(HandleImplCatches(i))
  /\ \A s \in 1..MaxStops : WF_vars(StopReturns(s))

\* ------------------------------------------------------------- claim C37
\* Invocation i is over, or will be without user logic doing anything more:
\* its callback threw, or its callback returned and its Route is resolved.
Completes(i) ==
  \/ invs[i].pc # "awaiting"
  \/ invs[i].cb = "threw"
  \/ invs[i].cb = "returned" /\ promises[invs[i].promise] # "pending"

\* The first stop('wait') is pending, or has returned.
StopPending == Len(stops) >= 1 /\ stops[1].pc = "awaiting"
StopReturned == Len(stops) >= 1 /\ stops[1].pc = "returned"

\* C37: stop('wait') returns in the end once every invocation that was active
\* at the call, and whose Route had not thrown, has raised or has its Route
\* resolved and its callback finished; it does not return before they are all
\* over, and an invocation whose callback returned while its Route is
\* unresolved is not over: it keeps stop('wait') pending unless the threw flag
\* of its Route was set at the call.
C37_StopWaitReturnsOnceInvocationsComplete ==
  /\ (StopPending /\ \A i \in stops[1].active \ stops[1].threw : Completes(i))
       ~> StopReturned
  /\ [](StopReturned => \A i \in stops[1].active \ stops[1].threw : invs[i].pc # "awaiting")
  /\ [](\A i \in Started :
          (invs[i].cb = "returned" /\ promises[invs[i].promise] = "pending") =>
            invs[i].pc = "awaiting")

\* stop('wait') has returned after two invocations it awaited were over, one
\* raised and one returned, while a third, whose Route had thrown at the call
\* and whose callback returned without a resolved Route, is still running.
C37_Witness ==
  /\ StopReturned
  /\ \E i, j \in stops[1].active \ stops[1].threw :
       invs[i].pc = "raised" /\ invs[j].pc = "returned"
  /\ \E i \in stops[1].threw :
       /\ invs[i].pc = "awaiting" /\ invs[i].cb = "returned"
       /\ promises[invs[i].promise] = "pending"

\* -------------------------------------------- a Route before its dispatch
\* A Route that belongs to no page, on which user logic makes resolving calls
\* at any time, before its first dispatch too.
InitUndispatched == Init /\ owner = "none"

NextUndispatched ==
  \/ \E h \in Handlers : handle(h)
  \/ \E o \in OverrideSet : Route_fallback(o)
  \/ \E o \in OverrideSet : Route_continue(o)
  \/ Route_abort
  \/ \E f \in FulfillSet : Route_fulfill(f)
  \/ \E c \in 1..MaxCalls : ChannelResolves(c)
  \/ \E c \in 1..MaxCalls : ChannelRejects(c)
  \/ \E i \in 1..NumHandlers : CallbackReturns(i)
  \/ \E i \in 1..NumHandlers : CallbackThrows(i)
  \/ \E i \in 1..NumHandlers : HandleReturns(i)
  \/ \E i \in 1..NumHandlers : HandleCatches(i)

SpecUndispatched == InitUndispatched /\ [][NextUndispatched]_vars

\* ------------------------------------------------------------- claim C38
\* A step in which user logic makes a resolving call.
CallMade == Len(calls') = Len(calls) + 1

\* No dispatch has started the handling of the Route yet.
Undispatched == Len(promises) = 0

\* C38: a resolving call on a Route that was never dispatched fails with
\* 'Route is already handled!', sends no command, leaves the overlay, the
\* threw flag and the handling promise as they were; and whatever calls were
\* made before, a resolving call made while a dispatch is unresolved does not
\* fail with that error.
C38_CallBeforeDispatchFailsHarmlessly ==
  [][CallMade =>
       /\ Undispatched =>
            /\ calls'[Len(calls')].result = "AlreadyHandled"
            /\ calls'[Len(calls')].pc = "done"
            /\ sent' = sent /\ fallbackOverrides' = fallbackOverrides
            /\ didThrow' = didThrow /\ handlingPromise' = handlingPromise
            /\ promises' = promises
       /\ handlingPromise # 0 => calls'[Len(calls')].result # "AlreadyHandled"]_vars

\* A continue with overrides made before the dispatch has failed, and a continue
\* made in the callback of the first handler has resolved the Route as handled,
\* with the overlay of that second call alone.
C38_Witness ==
  /\ Len(calls) >= 2 /\ Len(sent) = 1
  /\ calls[1].kind = "continue" /\ calls[1].epoch = 0
  /\ calls[1].opts.url = "u1" /\ calls[1].result = "AlreadyHandled"
  /\ calls[2].kind = "continue" /\ calls[2].epoch = 1 /\ calls[2].result = "ok"
  /\ calls[2].opts.url = "u2" /\ fallbackOverrides.url = "u2"
  /\ fallbackOverrides.headers = Undef
  /\ promises[1] = "true" /\ ~didThrow

\* ------------------------------------------------------ TeleReporterEmitter
\* The test results the runner reports, the attachments user logic adds to one
\* of them, and the onStepEnd events the runner emits for one of them.
MaxResults == 2
MaxAttachments == 2
MaxSteps == 2
Results == 1..MaxResults

\* An attachment of a test result: a name, and a body when it is not a file.
AttachmentSet ==
  { [name |-> "a1", hasBody |-> TRUE, body |-> << 104, 105 >>],
    [name |-> "a2", hasBody |-> FALSE, body |-> << >>] }

\* TeleReporterEmitter._emitterOptions.omitBuffers: not set.
omitBuffers == FALSE

\* TeleReporterEmitter._serializeAttachments: the body is replaced by its
\* base64 text, the rest is kept.
_serializeAttachments(as) ==
  [ k \in 1..Len(as) |->
      [ name |-> as[k].name,
        base64 |-> IF as[k].hasBody /\ ~omitBuffers THEN toStringBase64(as[k].body)
                   ELSE Undef ] ]

\* Array.prototype.slice(start) with 0 <= start.
slice(as, start) == SubSeq(as, start + 1, Len(as))

\* _resultKnownAttachmentCounts.get(resultId) ?? 0
knownAttachmentCount(resultId) ==
  IF \E e \in knownAttachmentCounts : e.id = resultId
  THEN (CHOOSE e \in knownAttachmentCounts : e.id = resultId).count
  ELSE 0

\* Map.prototype.set and Map.prototype.delete
MapSet(map, id, count) == { e \in map : e.id # id } \cup { [id |-> id, count |-> count] }
MapDelete(map, id) == { e \in map : e.id # id }

\* A message handed to _messageSink.
Message(method, resultId, as) == [method |-> method, resultId |-> resultId, attachments |-> as]

\* A _sendNewAttachments that sends the attachments of the result from the
\* first one.
_sendNewAttachmentsFromStart(resultId) ==
  IF Len(attachments[resultId]) > knownAttachmentCount(resultId)
  THEN << Message("onAttach", resultId,
                  _serializeAttachments(slice(attachments[resultId], 0))) >>
  ELSE << >>

\* TeleReporterEmitter._sendNewAttachments: the messages it hands to the sink;
\* the count it records is set by the caller's action.
_sendNewAttachments(resultId) ==
  IF Len(attachments[resultId]) > knownAttachmentCount(resultId)
  THEN << Message("onAttach", resultId,
                  _serializeAttachments(slice(attachments[resultId],
                                              knownAttachmentCount(resultId)))) >>
  ELSE << >>

\* The events the runner has emitted for a result.
Begun(r) == \E k \in 1..Len(messages) :
              messages[k].method = "onTestBegin" /\ messages[k].resultId = r
Ended(r) == \E k \in 1..Len(messages) :
              messages[k].method = "onTestEnd" /\ messages[k].resultId = r
StepsEnded(r) == Cardinality({ k \in 1..Len(messages) :
                   messages[k].method = "onStepEnd" /\ messages[k].resultId = r })

InitTele ==
  /\ attachments = [r \in Results |-> << >>]
  /\ knownAttachmentCounts = {}
  /\ messages = << >>
  /\ owner = "none" /\ scopeClosed = FALSE
  /\ NoRoute /\ NoHandler /\ NoMulti /\ NoWebSocketRoute /\ NoRawHeaders
  /\ NoRequests /\ NoFulfills /\ NoPrepared /\ NoApplies /\ NoActual /\ NoWsReplies

notTeleVars ==
  << owner, scopeClosed, routeVars, handlerVars, times, routeDidThrow, registered, stops,
     wsVars, rawVars, requests, fulfills, prepared, initializer, applies, actualVars, wsReplies >>

\* TeleReporterEmitter.onTestBegin: the result gets its id. The runner emits it
\* once for a result, before anything else about it.
onTestBegin(r) ==
  /\ ~Begun(r)
  /\ messages' = Append(messages, Message("onTestBegin", r, << >>))
  /\ UNCHANGED << attachments, knownAttachmentCounts, notTeleVars >>

\* User logic, or the runner on its behalf, appends an attachment to the result
\* of a running test.
Attach(r, a) ==
  /\ Begun(r) /\ ~Ended(r) /\ Len(attachments[r]) < MaxAttachments
  /\ attachments' = [attachments EXCEPT ![r] = Append(@, a)]
  /\ UNCHANGED << knownAttachmentCounts, messages, notTeleVars >>

\* TeleReporterEmitter.onStepEnd, which the runner emits for a running test.
onStepEnd(r) ==
  /\ Begun(r) /\ ~Ended(r) /\ StepsEnded(r) < MaxSteps
  /\ messages' = Append(messages \o _sendNewAttachments(r), Message("onStepEnd", r, << >>))
  /\ knownAttachmentCounts' = MapSet(knownAttachmentCounts, r, Len(attachments[r]))
  /\ UNCHANGED << attachments, notTeleVars >>

\* TeleReporterEmitter.onTestEnd, which the runner emits once, when the test
\* has finished.
onTestEnd(r) ==
  /\ Begun(r) /\ ~Ended(r)
  /\ messages' = Append(messages \o _sendNewAttachments(r), Message("onTestEnd", r, << >>))
  /\ knownAttachmentCounts' = MapDelete(MapSet(knownAttachmentCounts, r, Len(attachments[r])), r)
  /\ UNCHANGED << attachments, notTeleVars >>

NextTele ==
  \/ \E r \in Results : onTestBegin(r)
  \/ \E r \in Results, a \in AttachmentSet : Attach(r, a)
  \/ \E r \in Results : onStepEnd(r)
  \/ \E r \in Results : onTestEnd(r)

SpecTele == InitTele /\ [][NextTele]_vars

\* ------------------------------------------------------------- claim C39
\* The attachments of the onAttach messages of result r among the first n
\* messages, one after the other.
RECURSIVE Attached(_, _)
Attached(r, n) ==
  IF n = 0 THEN << >>
  ELSE Attached(r, n - 1) \o
         (IF messages[n].method = "onAttach" /\ messages[n].resultId = r
          THEN messages[n].attachments ELSE << >>)

\* The attachments of result r that have been sent: all of them once the test
\* has ended, those counted in _resultKnownAttachmentCounts before.
SentCount(r) == IF Ended(r) THEN Len(attachments[r]) ELSE knownAttachmentCount(r)

\* What C39 says of the messages sent so far.
SentOncePerEvent ==
  /\ \A r \in Results :
       Attached(r, Len(messages)) =
         _serializeAttachments(SubSeq(attachments[r], 1, SentCount(r)))
  /\ \A k \in 1..Len(messages) :
       messages[k].method = "onAttach" =>
         /\ messages[k].attachments # << >>
         /\ k < Len(messages)
         /\ messages[k + 1].resultId = messages[k].resultId
         /\ messages[k + 1].method \in {"onStepEnd", "onTestEnd"}

\* A step that hands an onStepEnd or onTestEnd message of result r to the sink.
EventOf(r) ==
  /\ messages' # messages
  /\ messages'[Len(messages')].resultId = r
  /\ messages'[Len(messages')].method \in {"onStepEnd", "onTestEnd"}

\* C39: for every result, the onAttach messages carry, in order and once
\* each, the attachments the result had at its last onStepEnd or onTestEnd,
\* which are all it has when that event is emitted; every onAttach message
\* carries at least one attachment and is followed at once by the onStepEnd or
\* onTestEnd message of the same result, and an event with nothing new to send
\* adds its own message only.
C39_EachAttachmentSentOnceBeforeItsEvent ==
  /\ []SentOncePerEvent
  /\ [][\A r \in Results :
          EventOf(r) =>
            /\ Attached(r, Len(messages))' = _serializeAttachments(attachments[r])
            /\ Attached(r, Len(messages)) = _serializeAttachments(attachments[r]) =>
                 Len(messages') = Len(messages) + 1]_vars

\* A result with two attachments, the first sent at an onStepEnd, the second
\* at onTestEnd, and an onStepEnd between them that sent nothing.
C39_Witness ==
  \E r \in Results :
    /\ Ended(r) /\ Len(attachments[r]) = 2
    /\ \E i, j, k, l \in 1..Len(messages) :
         /\ i + 1 = j /\ j < k /\ k + 1 < l
         /\ messages[i].method = "onAttach" /\ messages[i].resultId = r
         /\ messages[j].method = "onStepEnd" /\ messages[j].resultId = r
         /\ messages[k].method = "onStepEnd" /\ messages[k].resultId = r
         /\ messages[k - 1].method # "onAttach"
         /\ messages[l].method = "onTestEnd" /\ messages[l].resultId = r
         /\ messages[l - 1].method = "onAttach" /\ messages[l - 1].resultId = r

====
